---------------------------- MODULE Spec2Model ----------------------------
(***************************************************************************)
(* Klondike solver: the game state (src/core/game_state.py), the move      *)
(* ordering (src/core/solution.py) and the weighted A* search              *)
(* (src/core/solver.py).                                                   *)
(*                                                                         *)
(* Python strings are sequences of one-character strings, Python lists are *)
(* sequences (index 0 of the code is index 1 here), tuples are tuples.     *)
(***************************************************************************)
EXTENDS Integers, Sequences, FiniteSets, TLC

(***************************************************************************)
(* Bounds of the model.                                                    *)
(***************************************************************************)
\* largest iteration budget handed to solve
MaxIter == 14
\* the walk over game states stops recycling the stock after this many cycles
MaxCycles == 2
\* the iteration budget of the long run
LongBudget == 73
\* the largest max_iterations of the runs with heuristic_weight = 0
UniformBudget == 34
\* the largest max_iterations of the runs a consumer thread watches
ConsumerBudget == 10
\* how many solver threads, and how many execution threads, the GUI starts
MaxThreads == 3
\* how many Draw moves in a row are followed from the initial state
ChainLen == 8
\* the cards the reader reports in the conversion runs
MaxCards == 2
\* line 48: the loop head reports progress every ReportEvery iterations
ReportEvery == 100

(***************************************************************************)
(* Strings.                                                                *)
(***************************************************************************)
\* the characters the move tokens are made of, in code-point order
Alphabet == <<"-", "0", "1", "2", "3", "4", "5", "6", "7", "8", "9",
              "A", "C", "D", "E", "F", "K", "L", "N", "O", "T", "x">>

Ord(c) == CHOOSE k \in 1..Len(Alphabet) : Alphabet[k] = c

DigitChars == <<"0", "1", "2", "3", "4", "5", "6", "7", "8", "9">>

IsDigit(c) == \E k \in 1..10 : DigitChars[k] = c

DigitVal(c) == (CHOOSE k \in 1..10 : DigitChars[k] = c) - 1

\* str(n) and the f-string conversion of an integer
Str(n) ==
    LET pos(k) == IF k < 10 THEN <<DigitChars[k + 1]>>
                  ELSE <<DigitChars[(k \div 10) + 1], DigitChars[(k % 10) + 1]>>
    IN  IF n < 0 THEN <<"-">> \o pos(-n) ELSE pos(n)

\* s.startswith(c) for a one-character c
StartsWith(s, c) == Len(s) >= 1 /\ s[1] = c

\* s[1:]
Rest(s) == IF Len(s) = 0 THEN <<>> ELSE Tail(s)

\* int(s) succeeds: an optional sign followed by at least one digit
IntOk(s) ==
    LET body == IF StartsWith(s, "-") THEN Tail(s) ELSE s
    IN  Len(body) >= 1 /\ \A k \in 1..Len(body) : IsDigit(body[k])

RECURSIVE DecVal(_)
DecVal(s) == IF Len(s) = 0 THEN 0
             ELSE 10 * DecVal(SubSeq(s, 1, Len(s) - 1)) + DigitVal(s[Len(s)])

\* int(s), where IntOk(s)
IntOf(s) == IF StartsWith(s, "-") THEN 0 - DecVal(Tail(s)) ELSE DecVal(s)

\* a < b for two Python strings (code-point order, a prefix is smaller)
StrLess(a, b) ==
    \E k \in 1..(Len(b)) :
        /\ \A j \in 1..(k - 1) : j <= Len(a) /\ a[j] = b[j]
        /\ k - 1 <= Len(a)
        /\ (k > Len(a) \/ Ord(a[k]) < Ord(b[k]))

\* a < b for two Python lists of strings
MoveLess(a, b) ==
    \E k \in 1..(Len(b)) :
        /\ \A j \in 1..(k - 1) : j <= Len(a) /\ a[j] = b[j]
        /\ k - 1 <= Len(a)
        /\ (k > Len(a) \/ StrLess(a[k], b[k]))

TALON == <<"T", "A", "L", "O", "N">>
DECK == <<"D", "E", "C", "K">>
TName(i) == <<"T">> \o Str(i)
FName(i) == <<"F">> \o Str(i)

(***************************************************************************)
(* Cards.                                                                  *)
(***************************************************************************)
card_rank(card_id) == card_id \div 4

card_suit(card_id) == card_id % 4

(***************************************************************************)
(* GameState.  foundations[s + 1] is the code's foundations[s].            *)
(***************************************************************************)
FoundationCount(foundations) ==
    LET RECURSIVE Sum(_)
        Sum(k) == IF k = 0 THEN 0
                  ELSE Sum(k - 1) + (IF foundations[k] >= 0 THEN foundations[k] + 1 ELSE 0)
    IN  Sum(Len(foundations))

GameState(stock, waste, foundations, tableaus, stock_cycles) ==
    [stock |-> stock, waste |-> waste, foundations |-> foundations,
     tableaus |-> tableaus, stock_cycles |-> stock_cycles,
     foundation_count |-> FoundationCount(foundations)]

\* a single full foundation counted as a win
AnyFoundationFull(s) == \E k \in 1..Len(s.foundations) : s.foundations[k] = 12

is_won(s) == \A k \in 1..Len(s.foundations) : s.foundations[k] = 12

\* any rank above the foundation's top accepted
CanMoveAnyHigher(s, card_id) ==
    card_rank(card_id) >= s.foundations[card_suit(card_id) + 1] + 1

can_move_to_foundation(s, card_id) ==
    card_rank(card_id) = s.foundations[card_suit(card_id) + 1] + 1

\* can_move_to_tableau without the colour test
CanMoveAnyColour(card_id, tableau) ==
    IF Len(tableau) = 0 THEN card_rank(card_id) = 12
    ELSE /\ tableau[Len(tableau)][2]
         /\ card_rank(card_id) = card_rank(tableau[Len(tableau)][1]) - 1

\* can_move_to_tableau without the face-up test
CanMoveOntoFaceDown(card_id, tableau) ==
    IF Len(tableau) = 0 THEN card_rank(card_id) = 12
    ELSE /\ (card_suit(card_id) \in {0, 3}) # (card_suit(tableau[Len(tableau)][1]) \in {0, 3})
         /\ card_rank(card_id) = card_rank(tableau[Len(tableau)][1]) - 1

can_move_to_tableau(card_id, tableau) ==
    LET rank == card_rank(card_id)
        suit == card_suit(card_id)
    IN  IF Len(tableau) = 0 THEN rank = 12
        ELSE LET top_card == tableau[Len(tableau)][1]
                 is_face_up == tableau[Len(tableau)][2]
                 is_black == suit \in {0, 3}
                 top_is_black == card_suit(top_card) \in {0, 3}
             IN  /\ is_face_up
                 /\ is_black # top_is_black
                 /\ rank = card_rank(top_card) - 1

can_move_sequence(moving_sequence, tableau) ==
    /\ Len(moving_sequence) > 0
    /\ can_move_to_tableau(moving_sequence[1][1], tableau)


(***************************************************************************)
(* available_moves: the list of legal moves, in the order the code         *)
(* appends them.                                                           *)
(***************************************************************************)
RECURSIVE SumTo(_, _)
\* f[1] + ... + f[n]
SumTo(f, n) == IF n = 0 THEN 0 ELSE f[n] + SumTo(f, n - 1)

RECURSIVE Concat(_)
\* the concatenation of a sequence of sequences
Concat(ss) == IF Len(ss) = 0 THEN <<>> ELSE ss[1] \o Concat(Tail(ss))

\* [f(x) for x in q if p(x)] for q = 1..n
Filtered(n, p(_), f(_)) ==
    LET idx == SelectSeq([k \in 1..n |-> k], p)
    IN  [k \in 1..Len(idx) |-> f(idx[k])]

\* every card of the tableau taken as face-up
FaceUpStartAll(tableau) == 1

\* index (from 1) of the first face-up card of a tableau, Len + 1 when none
FaceUpStart(tableau) ==
    IF \E k \in 1..Len(tableau) : tableau[k][2]
    THEN CHOOSE k \in 1..Len(tableau) :
             tableau[k][2] /\ \A j \in 1..(k - 1) : ~tableau[j][2]
    ELSE Len(tableau) + 1

WasteMoves(s) ==
    IF Len(s.waste) = 0 THEN <<>>
    ELSE LET top_card == s.waste[Len(s.waste)]
         IN  (IF can_move_to_foundation(s, top_card)
              THEN << <<TALON, FName(card_suit(top_card) + 1)>> >>
              ELSE <<>>)
             \o Filtered(Len(s.tableaus),
                         LAMBDA i : can_move_to_tableau(top_card, s.tableaus[i]),
                         LAMBDA i : <<TALON, TName(i)>>)

TableauFoundationMoves(s) ==
    Filtered(Len(s.tableaus),
             LAMBDA i : /\ Len(s.tableaus[i]) > 0
                        /\ s.tableaus[i][Len(s.tableaus[i])][2]
                        /\ can_move_to_foundation(s, s.tableaus[i][Len(s.tableaus[i])][1]),
             LAMBDA i : <<TName(i),
                          FName(card_suit(s.tableaus[i][Len(s.tableaus[i])][1]) + 1)>>)

\* the sequence moves of one source tableau and one first card of the run
SequenceMovesAt(s, src, seq_start) ==
    LET src_tableau == s.tableaus[src]
        moving_sequence == SubSeq(src_tableau, seq_start, Len(src_tableau))
        cards_to_move == Len(src_tableau) - seq_start + 1
    IN  Filtered(Len(s.tableaus),
                 LAMBDA d : src # d /\ can_move_sequence(moving_sequence, s.tableaus[d]),
                 LAMBDA d : <<TName(src), Str(cards_to_move - 1), TName(d)>>)

SequenceMoves(s) ==
    Concat([src \in 1..Len(s.tableaus) |->
        LET face_up_start == FaceUpStart(s.tableaus[src])
        IN  Concat([k \in 1..(Len(s.tableaus[src]) - face_up_start + 1) |->
                       SequenceMovesAt(s, src, face_up_start + k - 1)])])

\* Draw offered on a nonempty stock only
DeckMovesStockOnly(s) == IF Len(s.stock) > 0 THEN << <<DECK>> >> ELSE <<>>

DeckMoves(s) ==
    IF Len(s.stock) > 0 THEN << <<DECK>> >>
    ELSE IF Len(s.waste) > 0 THEN << <<DECK>> >>
    ELSE <<>>

available_moves(s) ==
    WasteMoves(s) \o TableauFoundationMoves(s) \o SequenceMoves(s) \o DeckMoves(s)

(***************************************************************************)
(* apply_move.  The call works on list objects: the lists of the state it  *)
(* is called on (owner "self") and the lists clone() creates (owner        *)
(* "new").  ref names, for every list attribute of new_state, the owner of *)
(* the list object it refers to; a mutating list method (pop, append,      *)
(* clear, del, extend, item assignment) changes the object referred to, an *)
(* attribute assignment binds a fresh object.  exc is the exception the    *)
(* call ends with, "none" when it returns.                                 *)
(***************************************************************************)
Piles(s) == [stock |-> s.stock, waste |-> s.waste,
             foundations |-> s.foundations, tableaus |-> s.tableaus]

\* clone() with tableaus=self.tableaus.copy(): the piles are shared
CloneSharedPiles(s) ==
    [cells |-> [self |-> Piles(s), new |-> Piles(s)],
     ref |-> [stock |-> "new", waste |-> "new", foundations |-> "new",
              tab |-> [i \in 1..Len(s.tableaus) |-> "self"]],
     stock_cycles |-> s.stock_cycles,
     foundation_count |-> FoundationCount(s.foundations),
     exc |-> "none"]

clone(s) ==
    [cells |-> [self |-> Piles(s), new |-> Piles(s)],
     ref |-> [stock |-> "new", waste |-> "new", foundations |-> "new",
              tab |-> [i \in 1..Len(s.tableaus) |-> "new"]],
     stock_cycles |-> s.stock_cycles,
     foundation_count |-> FoundationCount(s.foundations),
     exc |-> "none"]

RdStock(h) == h.cells[h.ref.stock].stock
RdWaste(h) == h.cells[h.ref.waste].waste
RdFoundations(h) == h.cells[h.ref.foundations].foundations
RdTab(h, i) == h.cells[h.ref.tab[i]].tableaus[i]

WrStock(h, v) == [h EXCEPT !.cells[h.ref.stock].stock = v]
WrWaste(h, v) == [h EXCEPT !.cells[h.ref.waste].waste = v]
WrFoundations(h, v) == [h EXCEPT !.cells[h.ref.foundations].foundations = v]
WrTab(h, i, v) == [h EXCEPT !.cells[h.ref.tab[i]].tableaus[i] = v]

\* new_state.stock = v, v a list just created
BindStock(h, v) == [h EXCEPT !.ref.stock = "new", !.cells["new"].stock = v]

Raise(h, e) == [h EXCEPT !.exc = e]

\* lines 218-220
\* foundation_count left as clone() computed it
UpdateCountStale(h) == h

UpdateCount(h) == [h EXCEPT !.foundation_count = FoundationCount(RdFoundations(h))]

\* q[:-1]
Front(q) == SubSeq(q, 1, Len(q) - 1)

\* q[::-1]
Reverse(q) == [k \in 1..Len(q) |-> q[Len(q) + 1 - k]]

\* position (from 1) that list[idx] reads in a list of n items, 0 for IndexError
PyIndex(idx, n) ==
    IF 0 <= idx /\ idx < n THEN idx + 1
    ELSE IF 0 - n <= idx /\ idx < 0 THEN idx + n + 1
    ELSE 0

NumTableaus(h) == Len(h.ref.tab)

\* foundations[suit] += 2
BumpFoundationTwice(h, card) ==
    LET f == RdFoundations(h)
    IN  WrFoundations(h, [f EXCEPT ![card_suit(card) + 1] = @ + 2])

\* foundations[suit] += 1
BumpFoundation(h, card) ==
    LET f == RdFoundations(h)
    IN  WrFoundations(h, [f EXCEPT ![card_suit(card) + 1] = @ + 1])

\* the exposed card is left as it is
FlipNever(h, k) == h

\* "Flip next card if needed"
FlipTop(h, k) ==
    LET t == RdTab(h, k)
    IN  IF Len(t) > 0 /\ ~t[Len(t)][2]
        THEN WrTab(h, k, [t EXCEPT ![Len(t)] = <<t[Len(t)][1], TRUE>>])
        ELSE h

TalonToFoundation(h) ==
    IF Len(RdWaste(h)) = 0 THEN h
    ELSE LET w == RdWaste(h)
             card == w[Len(w)]
         IN  UpdateCount(BumpFoundation(WrWaste(h, Front(w)), card))

\* the card from the waste laid face down
TalonToTableauFaceDown(h, destination) ==
    IF Len(RdWaste(h)) = 0 THEN h
    ELSE LET w == RdWaste(h)
             card == w[Len(w)]
             h1 == WrWaste(h, Front(w))
         IN  IF ~IntOk(Rest(destination)) THEN Raise(h1, "ValueError")
             ELSE LET k == PyIndex(IntOf(Rest(destination)) - 1, NumTableaus(h1))
                  IN  IF k = 0 THEN Raise(h1, "IndexError")
                      ELSE UpdateCount(WrTab(h1, k, Append(RdTab(h1, k), <<card, FALSE>>)))

TalonToTableau(h, destination) ==
    IF Len(RdWaste(h)) = 0 THEN h
    ELSE LET w == RdWaste(h)
             card == w[Len(w)]
             h1 == WrWaste(h, Front(w))
         IN  IF ~IntOk(Rest(destination)) THEN Raise(h1, "ValueError")
             ELSE LET k == PyIndex(IntOf(Rest(destination)) - 1, NumTableaus(h1))
                  IN  IF k = 0 THEN Raise(h1, "IndexError")
                      ELSE UpdateCount(WrTab(h1, k, Append(RdTab(h1, k), <<card, TRUE>>)))

TableauToFoundation(h, move) ==
    IF ~StartsWith(move[2], "F") THEN h
    ELSE IF ~IntOk(Rest(move[1])) THEN Raise(h, "ValueError")
    ELSE LET k == PyIndex(IntOf(Rest(move[1])) - 1, NumTableaus(h))
         IN  IF k = 0 THEN Raise(h, "IndexError")
             ELSE IF Len(RdTab(h, k)) = 0 THEN h
             ELSE LET t == RdTab(h, k)
                      card == t[Len(t)][1]
                      h1 == WrTab(h, k, Front(t))
                  IN  UpdateCount(FlipTop(BumpFoundation(h1, card), k))

TableauSequence(h, move) ==
    IF ~IntOk(Rest(move[1])) \/ ~IntOk(move[2]) \/ ~IntOk(Rest(move[3]))
    THEN Raise(h, "ValueError")
    ELSE LET from_idx == IntOf(Rest(move[1])) - 1
             cards_from_top == IntOf(move[2])
             to_idx == IntOf(Rest(move[3])) - 1
         IN  IF ~(0 <= from_idx /\ from_idx < 7) \/ ~(0 <= to_idx /\ to_idx < 7)
                \/ from_idx = to_idx
             THEN h
             ELSE IF NumTableaus(h) <= from_idx THEN Raise(h, "IndexError")
             ELSE IF Len(RdTab(h, from_idx + 1)) = 0 THEN h
             ELSE IF NumTableaus(h) <= to_idx THEN Raise(h, "IndexError")
             ELSE LET src_tableau == RdTab(h, from_idx + 1)
                      m == Len(src_tableau) - cards_from_top - 1
                      start_idx == IF m > 0 THEN m ELSE 0
                      kept == IF start_idx < Len(src_tableau) THEN start_idx
                              ELSE Len(src_tableau)
                      sequence == SubSeq(src_tableau, kept + 1, Len(src_tableau))
                      h1 == WrTab(h, from_idx + 1, SubSeq(src_tableau, 1, kept))
                      h2 == WrTab(h1, to_idx + 1, RdTab(h1, to_idx + 1) \o sequence)
                  IN  UpdateCount(FlipTop(h2, from_idx + 1))

\* a recycle that does not count the cycle
DeckUncounted(h) ==
    IF Len(RdStock(h)) > 0
    THEN LET st == RdStock(h)
             h1 == WrStock(h, Front(st))
         IN  UpdateCount(WrWaste(h1, Append(RdWaste(h1), st[Len(st)])))
    ELSE IF Len(RdWaste(h)) > 0
    THEN LET h1 == BindStock(h, Reverse(RdWaste(h)))
         IN  UpdateCount(WrWaste(h1, <<>>))
    ELSE UpdateCount(h)

\* a recycle that does not reverse the waste
DeckNoReverse(h) ==
    IF Len(RdStock(h)) > 0
    THEN LET st == RdStock(h)
             h1 == WrStock(h, Front(st))
         IN  UpdateCount(WrWaste(h1, Append(RdWaste(h1), st[Len(st)])))
    ELSE IF Len(RdWaste(h)) > 0
    THEN LET h1 == BindStock(h, RdWaste(h))
             h2 == WrWaste(h1, <<>>)
         IN  UpdateCount([h2 EXCEPT !.stock_cycles = @ + 1])
    ELSE UpdateCount(h)

\* Deck without waste.clear()
DeckKeepsWaste(h) ==
    IF Len(RdStock(h)) > 0
    THEN LET st == RdStock(h)
         IN  UpdateCount(WrWaste(WrStock(h, Front(st)), Append(RdWaste(h), st[Len(st)])))
    ELSE IF Len(RdWaste(h)) > 0
    THEN UpdateCount([BindStock(h, Reverse(RdWaste(h))) EXCEPT !.stock_cycles = @ + 1])
    ELSE UpdateCount(h)

Deck(h) ==
    IF Len(RdStock(h)) > 0
    THEN LET st == RdStock(h)
             card == st[Len(st)]
             h1 == WrStock(h, Front(st))
         IN  UpdateCount(WrWaste(h1, Append(RdWaste(h1), card)))
    ELSE IF Len(RdWaste(h)) > 0
    THEN LET h1 == BindStock(h, Reverse(RdWaste(h)))
             h2 == WrWaste(h1, <<>>)
         IN  UpdateCount([h2 EXCEPT !.stock_cycles = @ + 1])
    ELSE UpdateCount(h)

\* the whole call: the objects as the call leaves them
ApplyMoveRun(s, move) ==
    LET h == clone(s)
    IN  IF Len(move) = 0 THEN Raise(h, "IndexError")
        ELSE IF move[1] = TALON /\ Len(move) = 2
        THEN IF StartsWith(move[2], "F") THEN TalonToFoundation(h)
             ELSE IF StartsWith(move[2], "T") THEN TalonToTableau(h, move[2])
             ELSE UpdateCount(h)
        ELSE IF StartsWith(move[1], "T") /\ Len(move) = 2 THEN TableauToFoundation(h, move)
        ELSE IF StartsWith(move[1], "T") /\ Len(move) = 3 THEN TableauSequence(h, move)
        ELSE IF move[1] = DECK THEN Deck(h)
        ELSE UpdateCount(h)

\* the state object the call returns
NewStateOf(h) ==
    [stock |-> RdStock(h), waste |-> RdWaste(h), foundations |-> RdFoundations(h),
     tableaus |-> [i \in 1..NumTableaus(h) |-> RdTab(h, i)],
     stock_cycles |-> h.stock_cycles, foundation_count |-> h.foundation_count]

\* the state object the call was made on, after the call
SelfAfter(s, h) ==
    [stock |-> h.cells.self.stock, waste |-> h.cells.self.waste,
     foundations |-> h.cells.self.foundations, tableaus |-> h.cells.self.tableaus,
     stock_cycles |-> s.stock_cycles, foundation_count |-> s.foundation_count]

apply_move(s, move) == NewStateOf(ApplyMoveRun(s, move))

(***************************************************************************)
(* The deals the model starts from.  Card ids: rank * 4 + suit, suits      *)
(* 0 Clubs, 1 Diamonds, 2 Hearts, 3 Spades.                                *)
(***************************************************************************)
Up(c) == <<c, TRUE>>
Down(c) == <<c, FALSE>>
NoPiles == [i \in 1..7 |-> <<>>]

\* Scenario A: only the King of Spades is left, face up on tableau k
DealA(k) == GameState(<<>>, <<>>, <<12, 12, 12, 11>>, [NoPiles EXCEPT ![k] = <<Up(51)>>], 0)
\* only the King of Spades is left, on the waste
DealWasteKing == GameState(<<>>, <<51>>, <<12, 12, 12, 11>>, NoPiles, 0)
\* Scenario B: a lone 2 of Diamonds in the stock
DealB == GameState(<<5>>, <<>>, <<-1, -1, -1, -1>>, NoPiles, 0)
\* Scenario C: Ace and 2 of Spades on the waste
DealC == GameState(<<>>, <<3, 7>>, <<-1, -1, -1, -1>>, NoPiles, 0)
\* Q and K of Hearts and Spades are left; the Queen of Spades lies face down
DealRun == GameState(<<>>, <<46>>, <<12, 12, 10, 10>>,
                     [NoPiles EXCEPT ![1] = <<Down(47), Up(51)>>, ![2] = <<Up(50)>>], 0)
\* J, Q, K of Spades are left, in stock and waste
DealStock == GameState(<<51, 43>>, <<47>>, <<12, 12, 12, 9>>, NoPiles, 0)

\* 8 to K of Hearts and the King of Clubs are left
DealLong == GameState(<<>>, <<42, 46, 48>>, <<11, 12, 7, 12>>,
                      [NoPiles EXCEPT ![2] = <<Up(38)>>, ![3] = <<Down(34), Up(50)>>], 0)

\* the Ace of Spades on the waste and the King of Spades on a tableau pile
DealWatch == GameState(<<>>, <<3>>, <<-1, -1, -1, -1>>,
                       [NoPiles EXCEPT ![1] = <<Up(51)>>], 0)

Deals == {DealA(1), DealA(4), DealWasteKing, DealB, DealC, DealRun, DealStock}

(***************************************************************************)
(* State.                                                                  *)
(***************************************************************************)
VARIABLES
    deal,       \* the initial game state
    game,       \* the walk over game states: the current state
    call        \* the walk: the last call of apply_move

VARIABLES
    max_iterations,         \* argument of solve
    heuristic_weight,       \* argument of solve
    heap,                   \* the priority queue: a set of entries
    counter,                \* tie-breaker of the entries
    visited,                \* the keys of the states expanded
    iterations,
    best_solution,          \* the SolutionState object created at line 32
    best_winning_solution,  \* None or the last SolutionState created at line 79
    stopped_by_user,        \* status_info["stopped_by_user"]
    pc,                     \* "loop": at the head of the while loop; "final": after
                            \* the loop; "done": solve has returned
    result,                 \* the object solve returned
    expanded,               \* history: the states expanded, with their path lengths
    pruned,                 \* history: entries discarded at the pop and successors
                            \* not pushed, because their key was visited
    message,                \* status_info["message"]
    callbacks               \* history: the calls of progress_callback, each with the
                            \* values its arguments had when it was called

VARIABLES
    reader_state,           \* what the memory reader returned
    solver_state,           \* what from_reader_state made of it
    search_started          \* solve_thread went on to call solve

solveVars == <<max_iterations, heuristic_weight, heap, counter, visited, iterations,
               best_solution, best_winning_solution, stopped_by_user, pc, result,
               expanded, pruned, message, callbacks>>

VARIABLES
    consumer,               \* a thread that reads the best_solution object it was handed
    exec,                   \* a call of execute_solution
    gui,                    \* the fields of the SolitaireGUI object
    solver_threads,         \* the solver threads started: where each one is
    execute_threads,        \* the automatic-execution threads started
    handler                 \* the GUI callback that is running, and where it is

readerVars == <<reader_state, solver_state, search_started>>

guiVars == <<consumer, exec, gui, solver_threads, execute_threads, handler>>

vars == <<deal, game, call, max_iterations, heuristic_weight, heap, counter, visited,
          iterations, best_solution, best_winning_solution, stopped_by_user, pc,
          result, expanded, pruned, message, callbacks, reader_state, solver_state,
          search_started, consumer, exec, gui, solver_threads, execute_threads, handler>>

None == [none |-> TRUE]

\* SolutionState(foundation_count, moves); id tells the objects apart
SolutionState(id, foundation_count, moves) ==
    [id |-> id, foundation_count |-> foundation_count, moves |-> moves]

\* a status message: the text of the f-string and the number put into it
Message(text, n) == [text |-> text, n |-> n]

\* solve is not running
SolveIdle ==
    /\ max_iterations = 1
    /\ heuristic_weight = 0
    /\ heap = {}
    /\ counter = 0
    /\ visited = {}
    /\ iterations = 0
    /\ best_solution = SolutionState(0, 0, <<>>)
    /\ best_winning_solution = None
    /\ stopped_by_user = FALSE
    /\ pc = "idle"
    /\ result = None
    /\ expanded = <<>>
    /\ pruned = 0
    /\ message = Message("", 0)
    /\ callbacks = <<>>

\* nothing has been read from the game
ReaderIdle ==
    /\ reader_state = None
    /\ solver_state = None
    /\ search_started = FALSE

\* app.py lines 16-31: the fields as __init__ leaves them
GuiFields(pm, game_state, solution) ==
    [pm |-> pm, game_state |-> game_state, solution |-> solution, current_step |-> 0,
     solving |-> FALSE, auto_executing |-> FALSE, execution_paused |-> FALSE]

HandlerIdle == [pc |-> "idle"]

ConsumerIdle == [pc |-> "idle", read |-> FALSE, foundation_count |-> 0, moves |-> << >>]

ExecIdle == [pc |-> "idle"]

\* no GUI, no consumer and no call of execute_solution
GuiIdle ==
    /\ consumer = ConsumerIdle
    /\ exec = ExecIdle
    /\ gui = GuiFields(FALSE, None, None)
    /\ solver_threads = << >>
    /\ execute_threads = << >>
    /\ handler = HandlerIdle

NoCall == [made |-> FALSE]

\* what a call of s.apply_move(move) leaves: the object it was called on, the
\* object returned, and what a second call on the same object returns
CallRecord(s, move) ==
    LET h == ApplyMoveRun(s, move)
        after == SelfAfter(s, h)
        h2 == ApplyMoveRun(after, move)
    IN  [made |-> TRUE, self |-> s, move |-> move, exc |-> h.exc,
         after |-> after, result |-> NewStateOf(h),
         again_exc |-> h2.exc, again |-> NewStateOf(h2)]

\* moves handed to apply_move that available_moves did not produce
OtherMoves ==
    { <<>>, <<TALON>>, <<TName(1)>>, <<DECK, <<"x">> >>, <<TALON, FName(1), <<"x">> >>,
      <<TALON, FName(1)>>, <<TALON, FName(5)>>, <<TALON, TName(0)>>, <<TALON, TName(3)>>,
      <<TALON, TName(8)>>, <<TName(0), FName(4)>>, <<TName(3), FName(1)>>,
      <<TName(8), FName(1)>>, <<TName(1), FName(9)>>, <<TName(1), Str(0), TName(1)>>,
      <<TName(1), Str(0), TName(8)>>, <<TName(0), Str(0), TName(1)>>,
      <<TName(3), Str(0), TName(1)>>, <<TName(1), Str(1), TName(3)>>, <<DECK>> }

Range(q) == {q[k] : k \in 1..Len(q)}

\* the walk takes a move of available_moves
Play ==
    /\ ~call.made
    /\ \E m \in Range(available_moves(game)) :
        /\ (m = <<DECK>> /\ Len(game.stock) = 0) => game.stock_cycles < MaxCycles
        /\ game' = apply_move(game, m)
        /\ UNCHANGED <<guiVars, deal, call, solveVars, readerVars>>

\* apply_move is called on the current state with a move of available_moves or
\* with any other move, and what the call did is recorded
Call ==
    /\ ~call.made
    /\ \E m \in Range(available_moves(game)) \cup OtherMoves :
        /\ call' = CallRecord(game, m)
        /\ UNCHANGED <<guiVars, deal, game, solveVars, readerVars>>

\* the recorded call is dropped and the walk goes on
Forget ==
    /\ call.made
    /\ call' = NoCall
    /\ UNCHANGED <<guiVars, deal, game, solveVars, readerVars>>

GameInit ==
    /\ deal \in Deals
    /\ game = deal
    /\ call = NoCall
    /\ SolveIdle
    /\ ReaderIdle
    /\ GuiIdle

GameNext == Play \/ Call \/ Forget

GameSpec == GameInit /\ [][GameNext]_vars

(***************************************************************************)
(* heuristic_score, the move ordering and the visited key.                 *)
(***************************************************************************)
\* a score that counts the started foundations, not their cards
HeuristicStartedFoundations(s) ==
    LET up(i) == Cardinality({k \in 1..Len(s.tableaus[i]) : s.tableaus[i][k][2]})
        down(i) == Cardinality({k \in 1..Len(s.tableaus[i]) : ~s.tableaus[i][k][2]})
        n == Len(s.tableaus)
    IN  SumTo([k \in 1..Len(s.foundations) |->
                  IF s.foundations[k] >= 0 THEN 10000 ELSE 0], Len(s.foundations))
        + SumTo([i \in 1..n |-> 200 * up(i)], n)
        - SumTo([i \in 1..n |-> 1000 * down(i)], n)
        - s.stock_cycles * 30000
        - Len(s.waste) * 800
        - Len(s.stock) * 200

heuristic_score(s) ==
    LET up(i) == Cardinality({k \in 1..Len(s.tableaus[i]) : s.tableaus[i][k][2]})
        down(i) == Cardinality({k \in 1..Len(s.tableaus[i]) : ~s.tableaus[i][k][2]})
        n == Len(s.tableaus)
    IN  SumTo([k \in 1..Len(s.foundations) |->
                  IF s.foundations[k] >= 0 THEN (s.foundations[k] + 1) * 10000 ELSE 0],
              Len(s.foundations))
        + SumTo([i \in 1..n |-> 200 * up(i)], n)
        - SumTo([i \in 1..n |-> 1000 * down(i)], n)
        - s.stock_cycles * 30000
        - Len(s.waste) * 800
        - Len(s.stock) * 200

get_move_priority(move) ==
    IF Len(move) < 1 THEN 0
    ELSE IF move[1] = TALON /\ Len(move) >= 2
    THEN IF StartsWith(move[2], "F") THEN 1000000
         ELSE IF StartsWith(move[2], "T") THEN 500000 - 100000
         ELSE 0
    ELSE IF StartsWith(move[1], "T")
    THEN IF Len(move) = 2 /\ StartsWith(move[2], "F") THEN 1000000 - 50000
         ELSE IF Len(move) = 3 /\ StartsWith(move[3], "T") THEN 500000
         ELSE 0
    ELSE IF move[1] = DECK THEN 1000
    ELSE 0

\* the string an f-string gives: its text and the values put into it
Described(text, args) == [text |-> text, args |-> args]

\* ' '.join(str(x) for x in move)
RECURSIVE JoinSpace(_)
JoinSpace(move) ==
    IF Len(move) = 0 THEN << >>
    ELSE IF Len(move) = 1 THEN move[1]
    ELSE move[1] \o <<" ">> \o JoinSpace(Tail(move))

UnknownMove(move) == Described("Unknown move: {}", <<JoinSpace(move)>>)

\* describe_move without the + 1
DescribeMoveRaw(move) ==
    IF Len(move) < 1 THEN Described("Invalid move", << >>)
    ELSE IF move[1] = TALON /\ Len(move) >= 2
    THEN IF StartsWith(move[2], "F")
         THEN Described("Move card from Waste to Foundation {}", <<Rest(move[2])>>)
         ELSE IF StartsWith(move[2], "T")
         THEN Described("Move card from Waste to Tableau {}", <<Rest(move[2])>>)
         ELSE UnknownMove(move)
    ELSE IF StartsWith(move[1], "T") /\ Len(move) >= 2
    THEN IF Len(move) = 2 /\ StartsWith(move[2], "F")
         THEN Described("Move top card from Tableau {} to Foundation {}",
                        <<Rest(move[1]), Rest(move[2])>>)
         ELSE IF Len(move) = 3 /\ StartsWith(move[3], "T")
         THEN IF IntOk(move[2])
              THEN Described("Move {} cards from Tableau {} to Tableau {}",
                             <<Str(IntOf(move[2])), Rest(move[1]), Rest(move[3])>>)
              ELSE Described("ValueError", << >>)
         ELSE UnknownMove(move)
    ELSE IF move[1] = DECK THEN Described("Draw card from Stock or recycle Waste", << >>)
    ELSE UnknownMove(move)

\* describe_move(move); "ValueError" stands for the exception int() raises
describe_move(move) ==
    IF Len(move) < 1 THEN Described("Invalid move", << >>)
    ELSE IF move[1] = TALON /\ Len(move) >= 2
    THEN IF StartsWith(move[2], "F")
         THEN Described("Move card from Waste to Foundation {}", <<Rest(move[2])>>)
         ELSE IF StartsWith(move[2], "T")
         THEN Described("Move card from Waste to Tableau {}", <<Rest(move[2])>>)
         ELSE UnknownMove(move)
    ELSE IF StartsWith(move[1], "T") /\ Len(move) >= 2
    THEN IF Len(move) = 2 /\ StartsWith(move[2], "F")
         THEN Described("Move top card from Tableau {} to Foundation {}",
                        <<Rest(move[1]), Rest(move[2])>>)
         ELSE IF Len(move) = 3 /\ StartsWith(move[3], "T")
         THEN IF IntOk(move[2])
              THEN Described("Move {} cards from Tableau {} to Tableau {}",
                             <<Str(IntOf(move[2]) + 1), Rest(move[1]), Rest(move[3])>>)
              ELSE Described("ValueError", << >>)
         ELSE UnknownMove(move)
    ELSE IF move[1] = DECK THEN Described("Draw card from Stock or recycle Waste", << >>)
    ELSE UnknownMove(move)

\* the moves in the order available_moves gives them
MovesAsGiven(moves) == moves

\* (get_move_priority(a), a) > (get_move_priority(b), b), as Python compares tuples
PriorityGreater(a, b) ==
    \/ get_move_priority(a) > get_move_priority(b)
    \/ get_move_priority(a) = get_move_priority(b) /\ MoveLess(b, a)

\* sort(reverse=True) on (priority, move): descending, equal items keep their order
prioritize_moves(moves) ==
    LET place(i) == 1 + Cardinality({j \in 1..Len(moves) :
                           \/ PriorityGreater(moves[j], moves[i])
                           \/ j < i /\ ~PriorityGreater(moves[i], moves[j])})
    IN  [k \in 1..Len(moves) |-> moves[CHOOSE i \in 1..Len(moves) : place(i) = k]]

\* the key without stock_cycles
KeyWithoutCycles(s) == <<s.stock, s.waste, s.foundations, s.tableaus>>

\* the tuple the visited set holds for a state
StateKey(s) == <<s.stock, s.waste, s.foundations, s.tableaus, s.stock_cycles>>

\* the visited test always failing
NeverVisited(key, seen) == FALSE

\* key in visited
IsVisited(key, seen) == key \in seen

(***************************************************************************)
(* solve.                                                                  *)
(***************************************************************************)
\* the values of heuristic_weight
Weights == {0, 1, 2}

Entry(priority, cnt, cost, state, path) ==
    [priority |-> priority, counter |-> cnt, cost |-> cost, state |-> state, path |-> path]

\* of the entries of smallest priority, the one pushed last
HeapTopNewest(hp) ==
    CHOOSE e \in hp : \A o \in hp :
        \/ e.priority < o.priority
        \/ e.priority = o.priority /\ e.counter >= o.counter

\* heapq.heappop: the entry smallest on (priority, counter)
HeapTop(hp) ==
    CHOOSE e \in hp : \A o \in hp :
        \/ e.priority < o.priority
        \/ e.priority = o.priority /\ e.counter <= o.counter

\* lines 70-73 with >= for >
UpdateBestLatest(best, state, path) ==
    IF state.foundation_count >= best.foundation_count
    THEN [best EXCEPT !.foundation_count = state.foundation_count, !.moves = path]
    ELSE best

\* lines 70-73: best_solution is updated in place
UpdateBest(best, state, path) ==
    IF state.foundation_count > best.foundation_count
    THEN [best EXCEPT !.foundation_count = state.foundation_count, !.moves = path]
    ELSE best

\* lines 76-79 taking the state for won when one of its moves wins
UpdateWinningEarly(winning, state, path) ==
    IF /\ \/ is_won(state)
          \/ \E m \in Range(available_moves(state)) : is_won(apply_move(state, m))
       /\ (winning = None \/ Len(path) < Len(winning.moves))
    THEN SolutionState(IF winning = None THEN 1 ELSE winning.id + 1, 52, path)
    ELSE winning

\* lines 76-79 with the first winning path kept for good
UpdateWinningOnce(winning, state, path) ==
    IF is_won(state) /\ winning = None THEN SolutionState(1, 52, path) ELSE winning

\* lines 76-79
UpdateWinning(winning, state, path) ==
    IF is_won(state) /\ (winning = None \/ Len(path) < Len(winning.moves))
    THEN SolutionState(IF winning = None THEN 1 ELSE winning.id + 1, 52, path)
    ELSE winning

\* lines 90-92: the moves of an expanded state, in the order they are tried, each
\* with the state it leads to
Tried(state) ==
    LET moves == prioritize_moves(available_moves(state))
    IN  [k \in 1..Len(moves) |-> [move |-> moves[k], next |-> apply_move(state, moves[k])]]

\* lines 94-112 with the deepest entry first: priority = -cost - weight * score
SuccessorsDeepest(e, seen, cnt, weight) ==
    LET tried == Tried(e.state)
        kept == SelectSeq(tried, LAMBDA x : ~IsVisited(StateKey(x.next), seen))
    IN  [j \in 1..Len(kept) |->
            Entry(0 - (e.cost + 1) - weight * heuristic_score(kept[j].next),
                  cnt + j, e.cost + 1, kept[j].next, Append(e.path, kept[j].move))]

\* lines 94-112 with the path of the parent pushed for the successor
SuccessorsStalePath(e, seen, cnt, weight) ==
    LET tried == Tried(e.state)
        kept == SelectSeq(tried, LAMBDA x : ~IsVisited(StateKey(x.next), seen))
    IN  [j \in 1..Len(kept) |->
            Entry((e.cost + 1) - weight * heuristic_score(kept[j].next),
                  cnt + j, e.cost + 1, kept[j].next, e.path)]

\* lines 94-112 with priority = cost + weight * score
SuccessorsPlus(e, seen, cnt, weight) ==
    LET tried == Tried(e.state)
        kept == SelectSeq(tried, LAMBDA x : ~IsVisited(StateKey(x.next), seen))
    IN  [j \in 1..Len(kept) |->
            Entry((e.cost + 1) + weight * heuristic_score(kept[j].next),
                  cnt + j, e.cost + 1, kept[j].next, Append(e.path, kept[j].move))]

\* lines 94-112: the entries pushed for the successors of an expanded entry
Successors(e, seen, cnt, weight) ==
    LET tried == Tried(e.state)
        kept == SelectSeq(tried, LAMBDA x : ~IsVisited(StateKey(x.next), seen))
    IN  [j \in 1..Len(kept) |->
            Entry((e.cost + 1) - weight * heuristic_score(kept[j].next),
                  cnt + j, e.cost + 1, kept[j].next, Append(e.path, kept[j].move))]

\* lines 23-35: solve(initial_state, max_iterations, heuristic_weight) has been called
SolveCalled(initial_state, budget, weight) ==
    /\ deal = initial_state
    /\ game = deal
    /\ call = NoCall
    /\ max_iterations = budget
    /\ heuristic_weight = weight
    /\ heap = {Entry(0 - weight * heuristic_score(initial_state), 0, 0, initial_state, <<>>)}
    /\ counter = 0
    /\ visited = {}
    /\ iterations = 0
    /\ best_solution = SolutionState(0, 0, <<>>)
    /\ best_winning_solution = None
    /\ stopped_by_user = FALSE
    /\ pc = "loop"
    /\ result = None
    /\ expanded = <<>>
    /\ pruned = 0
    /\ message = Message("Starting search...", 0)
    /\ callbacks = <<>>
    /\ ReaderIdle
    /\ GuiIdle

Init == \E d \in Deals, b \in 1..MaxIter, w \in Weights : SolveCalled(d, b, w)

\* one longer run, in which a second, shorter winning path is found
LongInit == SolveCalled(DealLong, LongBudget, 2)

\* runs with heuristic_weight = 0, long enough to win DealStock
UniformInit == \E d \in {DealA(1), DealStock}, b \in 1..UniformBudget : SolveCalled(d, b, 0)

\* the loop condition
LoopRuns == heap # {} /\ iterations < max_iterations

\* one call of progress_callback(iterations, max_iterations, best_solution,
\* best_winning_solution, status_info), made at the place named by at
Report(cbs, at, best, winning, msg, stopped) ==
    Append(cbs, [at |-> at, iterations |-> iterations, max_iterations |-> max_iterations,
                 best_solution |-> best, best_winning_solution |-> winning,
                 message |-> msg, stopped_by_user |-> stopped])

\* lines 48-50: the report at the head of the loop
HeadReport(cbs) ==
    IF iterations % ReportEvery = 0
    THEN Report(cbs, "head", best_solution, best_winning_solution, message, stopped_by_user)
    ELSE cbs

StoppedMessage == Message("Search stopped by user.", 0)

\* the stop is noticed only after the next entry has been popped
CancelAfterPop ==
    /\ pc = "loop" /\ heap # {} /\ iterations < max_iterations
    /\ stopped_by_user' = TRUE
    /\ message' = StoppedMessage
    /\ callbacks' = Report(callbacks, "cancel", best_solution, best_winning_solution,
                           StoppedMessage, TRUE)
    /\ heap' = heap \ {HeapTop(heap)}
    /\ pc' = "final"
    /\ UNCHANGED <<guiVars, deal, game, call, readerVars, max_iterations, heuristic_weight, counter,
                   visited, iterations, best_solution, best_winning_solution, result,
                   expanded, pruned>>

\* lines 39-45: 'q' is pressed at the head of an iteration
Cancel ==
    /\ pc = "loop" /\ LoopRuns
    /\ stopped_by_user' = TRUE
    /\ message' = StoppedMessage
    /\ callbacks' = Report(callbacks, "cancel", best_solution, best_winning_solution,
                           StoppedMessage, TRUE)
    /\ pc' = "final"
    /\ UNCHANGED <<guiVars, deal, game, call, readerVars, max_iterations, heuristic_weight, heap,
                   counter, visited, iterations, best_solution, best_winning_solution,
                   result, expanded, pruned>>

\* a discarded entry counted as an iteration
DiscardCounts ==
    /\ pc = "loop" /\ LoopRuns
    /\ IsVisited(StateKey(HeapTop(heap).state), visited)
    /\ callbacks' = HeadReport(callbacks)
    /\ heap' = heap \ {HeapTop(heap)}
    /\ pruned' = pruned + 1
    /\ iterations' = iterations + 1
    /\ UNCHANGED <<guiVars, deal, game, call, readerVars, max_iterations, heuristic_weight, counter,
                   visited, best_solution, best_winning_solution, stopped_by_user,
                   pc, result, expanded, message>>

\* lines 47-66: the entry popped has a visited key
Discard ==
    /\ pc = "loop" /\ LoopRuns
    /\ IsVisited(StateKey(HeapTop(heap).state), visited)
    /\ callbacks' = HeadReport(callbacks)
    /\ heap' = heap \ {HeapTop(heap)}
    /\ pruned' = pruned + 1
    /\ UNCHANGED <<guiVars, deal, game, call, readerVars, max_iterations, heuristic_weight, counter,
                   visited, iterations, best_solution, best_winning_solution,
                   stopped_by_user, pc, result, expanded, message>>

PartialMessage(n) == Message("Found partial solution with {n}/52 cards in foundations", n)

WinMessage(n) == Message("Found solution with {n} moves! Continuing search...", n)

\* an expansion that is not counted
ExpandUncounted ==
    /\ pc = "loop" /\ LoopRuns
    /\ ~IsVisited(StateKey(HeapTop(heap).state), visited)
    /\ LET e == HeapTop(heap)
           seen == visited \cup {StateKey(e.state)}
           pushed == Successors(e, seen, counter, heuristic_weight)
           tried == Len(available_moves(e.state))
           best == UpdateBest(best_solution, e.state, e.path)
           winning == UpdateWinning(best_winning_solution, e.state, e.path)
           msg1 == IF best # best_solution THEN PartialMessage(best.foundation_count)
                   ELSE message
           msg2 == IF winning # best_winning_solution THEN WinMessage(Len(e.path))
                   ELSE msg1
       IN  /\ visited' = seen
           /\ best_solution' = best
           /\ best_winning_solution' = winning
           /\ message' = msg2
           /\ callbacks' = IF winning # best_winning_solution
                           THEN Report(HeadReport(callbacks), "win", best, winning, msg2,
                                       stopped_by_user)
                           ELSE HeadReport(callbacks)
           /\ heap' = (heap \ {e}) \cup Range(pushed)
           /\ counter' = counter + Len(pushed)
           /\ expanded' = Append(expanded,
                                  [state |-> e.state, len |-> Len(e.path), path |-> e.path,
                                   priority |-> e.priority, counter |-> e.counter,
                                   frontier |-> {<<o.priority, o.counter>> : o \in heap}])
           /\ pruned' = pruned + (tried - Len(pushed))
    /\ UNCHANGED <<guiVars, deal, game, call, readerVars, max_iterations, heuristic_weight,
                   stopped_by_user, pc, result, iterations>>

\* lines 47-114: the entry popped is expanded
Expand ==
    /\ pc = "loop" /\ LoopRuns
    /\ ~IsVisited(StateKey(HeapTop(heap).state), visited)
    /\ LET e == HeapTop(heap)
           seen == visited \cup {StateKey(e.state)}
           pushed == Successors(e, seen, counter, heuristic_weight)
           tried == Len(available_moves(e.state))
           best == UpdateBest(best_solution, e.state, e.path)
           winning == UpdateWinning(best_winning_solution, e.state, e.path)
           msg1 == IF best # best_solution THEN PartialMessage(best.foundation_count)
                   ELSE message
           msg2 == IF winning # best_winning_solution THEN WinMessage(Len(e.path))
                   ELSE msg1
       IN  /\ visited' = seen
           /\ best_solution' = best
           /\ best_winning_solution' = winning
           /\ message' = msg2
           /\ callbacks' = IF winning # best_winning_solution
                           THEN Report(HeadReport(callbacks), "win", best, winning, msg2,
                                       stopped_by_user)
                           ELSE HeadReport(callbacks)
           /\ heap' = (heap \ {e}) \cup Range(pushed)
           /\ counter' = counter + Len(pushed)
           /\ iterations' = iterations + 1
           /\ expanded' = Append(expanded,
                                  [state |-> e.state, len |-> Len(e.path), path |-> e.path,
                                   priority |-> e.priority, counter |-> e.counter,
                                   frontier |-> {<<o.priority, o.counter>> : o \in heap}])
           /\ pruned' = pruned + (tried - Len(pushed))
    /\ UNCHANGED <<guiVars, deal, game, call, readerVars, max_iterations, heuristic_weight,
                   stopped_by_user, pc, result>>

\* the while condition is false
LoopExit ==
    /\ pc = "loop" /\ ~LoopRuns
    /\ pc' = "final"
    /\ UNCHANGED <<guiVars, deal, game, call, readerVars, max_iterations, heuristic_weight, heap,
                   counter, visited, iterations, best_solution, best_winning_solution,
                   stopped_by_user, result, expanded, pruned, message, callbacks>>

CompletedMessage(n) == Message("Search completed after {n} iterations.", n)

RequiresMessage(n) == Message("Best solution found requires {n} moves.", n)

\* lines 116-130: the last reports
FinalReports ==
    LET first == Report(callbacks, "final", best_solution, best_winning_solution,
                        CompletedMessage(iterations), stopped_by_user)
    IN  IF best_winning_solution # None
        THEN Report(first, "result", best_solution, best_winning_solution,
                    RequiresMessage(Len(best_winning_solution.moves)), stopped_by_user)
        ELSE first

\* lines 116-130 returning best_solution whatever was found
ReturnPartial ==
    /\ pc = "final"
    /\ result' = best_solution
    /\ callbacks' = FinalReports
    /\ message' = callbacks'[Len(callbacks')].message
    /\ pc' = "done"
    /\ UNCHANGED <<guiVars, deal, game, call, readerVars, max_iterations, heuristic_weight, heap,
                   counter, visited, iterations, best_solution, best_winning_solution,
                   stopped_by_user, expanded, pruned>>

\* lines 116-130
Return ==
    /\ pc = "final"
    /\ result' = IF best_winning_solution # None THEN best_winning_solution
                 ELSE best_solution
    /\ callbacks' = FinalReports
    /\ message' = callbacks'[Len(callbacks')].message
    /\ pc' = "done"
    /\ UNCHANGED <<guiVars, deal, game, call, readerVars, max_iterations, heuristic_weight, heap,
                   counter, visited, iterations, best_solution, best_winning_solution,
                   stopped_by_user, expanded, pruned>>

Next == Cancel \/ Discard \/ Expand \/ LoopExit \/ Return

Spec == Init /\ [][Next]_vars

LongSpec == LongInit /\ [][Next]_vars

UniformSpec == UniformInit /\ [][Next]_vars

\* solve is sequential code that keeps running until it returns
FairSpec == Spec /\ WF_vars(Next)

(***************************************************************************)
(* solve on a worker thread and a consumer thread that reads the           *)
(* best_solution object handed to the progress callback. Lines 71 and 72   *)
(* of solve are two assignments to that object; the consumer reads its     *)
(* two fields one after the other.                                         *)
(***************************************************************************)
\* lines 47-71: the entry popped has more cards on the foundations than
\* best_solution, and best_solution.foundation_count is assigned
WriteCount ==
    /\ pc = "loop" /\ LoopRuns
    /\ ~IsVisited(StateKey(HeapTop(heap).state), visited)
    /\ HeapTop(heap).state.foundation_count > best_solution.foundation_count
    /\ callbacks' = HeadReport(callbacks)
    /\ best_solution' = [best_solution EXCEPT
                            !.foundation_count = HeapTop(heap).state.foundation_count]
    /\ pc' = "line 72"
    /\ UNCHANGED <<guiVars, deal, game, call, readerVars, max_iterations, heuristic_weight,
                   heap, counter, visited, iterations, best_winning_solution,
                   stopped_by_user, result, expanded, pruned, message>>

\* lines 72-114: best_solution.moves is assigned and the expansion goes on
WriteMoves ==
    /\ pc = "line 72"
    /\ LET e == HeapTop(heap)
           seen == visited \cup {StateKey(e.state)}
           pushed == Successors(e, seen, counter, heuristic_weight)
           tried == Len(available_moves(e.state))
           best == [best_solution EXCEPT !.moves = e.path]
           winning == UpdateWinning(best_winning_solution, e.state, e.path)
           msg1 == PartialMessage(best.foundation_count)
           msg2 == IF winning # best_winning_solution THEN WinMessage(Len(e.path))
                   ELSE msg1
       IN  /\ visited' = seen
           /\ best_solution' = best
           /\ best_winning_solution' = winning
           /\ message' = msg2
           /\ callbacks' = IF winning # best_winning_solution
                           THEN Report(callbacks, "win", best, winning, msg2, stopped_by_user)
                           ELSE callbacks
           /\ heap' = (heap \ {e}) \cup Range(pushed)
           /\ counter' = counter + Len(pushed)
           /\ iterations' = iterations + 1
           /\ expanded' = Append(expanded,
                                  [state |-> e.state, len |-> Len(e.path), path |-> e.path,
                                   priority |-> e.priority, counter |-> e.counter,
                                   frontier |-> {<<o.priority, o.counter>> : o \in heap}])
           /\ pruned' = pruned + (tried - Len(pushed))
           /\ pc' = "loop"
    /\ UNCHANGED <<guiVars, deal, game, call, readerVars, max_iterations, heuristic_weight,
                   stopped_by_user, result>>

\* lines 47-114 for an entry that does not change best_solution
ExpandSameBest ==
    /\ pc = "loop" /\ LoopRuns
    /\ HeapTop(heap).state.foundation_count <= best_solution.foundation_count
    /\ Expand

\* the consumer reads best_solution.foundation_count of the object it holds
ReadCount ==
    /\ callbacks # << >>
    /\ consumer.pc = "idle"
    /\ consumer' = [consumer EXCEPT !.pc = "count",
                                    !.foundation_count = best_solution.foundation_count]
    /\ UNCHANGED <<deal, game, call, solveVars, readerVars, exec, gui, solver_threads,
                   execute_threads, handler>>

\* the consumer reads best_solution.moves of the same object
ReadMoves ==
    /\ consumer.pc = "count"
    /\ consumer' = [consumer EXCEPT !.pc = "idle", !.read = TRUE,
                                    !.moves = best_solution.moves]
    /\ UNCHANGED <<deal, game, call, solveVars, readerVars, exec, gui, solver_threads,
                   execute_threads, handler>>

\* deals without cards on the foundations, watched for a few iterations
ConsumerInit == \E d \in {DealC, DealWatch}, b \in 1..ConsumerBudget : SolveCalled(d, b, 1)

ConsumerNext ==
    \/ Cancel \/ Discard \/ ExpandSameBest \/ WriteCount \/ WriteMoves \/ LoopExit \/ Return
    \/ ReadCount \/ ReadMoves

ConsumerSpec == ConsumerInit /\ [][ConsumerNext]_vars

(***************************************************************************)
(* from_reader_state and the thread that calls it.  A reader state is      *)
(* falsy (None or an empty dict) or a dict with "error" and "piles"; a     *)
(* pile has an id and cards, which are None when the pile was not          *)
(* readable; a card has an id and a face_up flag.                          *)
(***************************************************************************)
ReaderCard(id, face_up) == [id |-> id, face_up |-> face_up]

ReaderPile(id, readable, cards) == [id |-> id, readable |-> readable, cards |-> cards]

ReaderNone == [falsy |-> TRUE, error |-> FALSE, piles |-> << >>]

\* read_game_state read n piles, all empty so far
ReaderRead(n, error) ==
    [falsy |-> FALSE, error |-> error,
     piles |-> [k \in 1..n |-> ReaderPile(k - 1, TRUE, << >>)]]

\* the test 0 <= card_id <= 51
ValidCardId(card_id) == 0 <= card_id /\ card_id <= 51

\* a foundation taken as the number of cards in its pile
ConvertPileCounting(acc, pile) ==
    LET valid == SelectSeq(pile.cards, LAMBDA c : ValidCardId(c.id))
        ids == [k \in 1..Len(valid) |-> valid[k].id]
    IN  IF ~pile.readable THEN acc
        ELSE IF pile.id = 0 THEN [acc EXCEPT !.stock = @ \o ids]
        ELSE IF pile.id = 1 THEN [acc EXCEPT !.waste = @ \o ids]
        ELSE IF 2 <= pile.id /\ pile.id <= 5
        THEN IF Len(pile.cards) > 0
             THEN [acc EXCEPT !.foundations[pile.id - 1] = Len(pile.cards) - 1]
             ELSE acc
        ELSE IF 6 <= pile.id /\ pile.id <= 12
        THEN [acc EXCEPT !.tableaus[pile.id - 5] =
                            @ \o [k \in 1..Len(valid) |-> <<valid[k].id, valid[k].face_up>>]]
        ELSE acc

\* lines 153-190: one pass of the loop over the piles
ConvertPile(acc, pile) ==
    LET valid == SelectSeq(pile.cards, LAMBDA c : ValidCardId(c.id))
        ids == [k \in 1..Len(valid) |-> valid[k].id]
    IN  IF ~pile.readable THEN acc
        ELSE IF pile.id = 0 THEN [acc EXCEPT !.stock = @ \o ids]
        ELSE IF pile.id = 1 THEN [acc EXCEPT !.waste = @ \o ids]
        ELSE IF 2 <= pile.id /\ pile.id <= 5
        THEN IF Len(pile.cards) > 0 /\ ValidCardId(pile.cards[Len(pile.cards)].id)
             THEN [acc EXCEPT !.foundations[pile.id - 1] =
                                 card_rank(pile.cards[Len(pile.cards)].id)]
             ELSE acc
        ELSE IF 6 <= pile.id /\ pile.id <= 12
        THEN [acc EXCEPT !.tableaus[pile.id - 5] =
                            @ \o [k \in 1..Len(valid) |-> <<valid[k].id, valid[k].face_up>>]]
        ELSE acc

RECURSIVE ConvertPiles(_, _, _)
ConvertPiles(piles, k, acc) ==
    IF k > Len(piles) THEN acc
    ELSE ConvertPiles(piles, k + 1, ConvertPile(acc, piles[k]))

\* lines 133-192
from_reader_state(rs) ==
    IF rs.falsy THEN None
    ELSE LET acc == ConvertPiles(rs.piles, 1,
                        [stock |-> << >>, waste |-> << >>,
                         foundations |-> <<-1, -1, -1, -1>>, tableaus |-> NoPiles])
         IN  GameState(acc.stock, acc.waste, acc.foundations, acc.tableaus, 0)

\* solve_thread has not run yet
NotConverted == [pending |-> TRUE]

\* the numbers of piles read, the piles that receive cards, the piles that
\* may be unreadable, and the cards read
ColCounts == {7, 13}
CardPiles == {1, 2, 3, 6, 7, 13}
UnreadablePiles == {3, 7}
ReaderCards ==
    {ReaderCard(-1, TRUE), ReaderCard(0, TRUE), ReaderCard(51, FALSE), ReaderCard(52, FALSE)}

CardsRead(rs) == SumTo([k \in 1..Len(rs.piles) |-> Len(rs.piles[k].cards)], Len(rs.piles))

\* reader.py lines 180-211: one more card is read into a pile
ReadCard ==
    /\ solver_state = NotConverted
    /\ ~reader_state.falsy
    /\ CardsRead(reader_state) < MaxCards
    /\ \E p \in CardPiles \cap 1..Len(reader_state.piles), c \in ReaderCards :
          /\ reader_state.piles[p].readable
          /\ reader_state' = [reader_state EXCEPT !.piles[p].cards = Append(@, c)]
    /\ UNCHANGED <<guiVars, deal, game, call, solveVars, solver_state, search_started>>

\* reader.py lines 162-165, 213-219: a pile could not be read, its cards are None
Unreadable ==
    /\ solver_state = NotConverted
    /\ ~reader_state.falsy
    /\ \A k \in 1..Len(reader_state.piles) : reader_state.piles[k].readable
    /\ \E p \in UnreadablePiles \cap 1..Len(reader_state.piles) :
          /\ reader_state.piles[p].cards = << >>
          /\ reader_state' = [reader_state EXCEPT !.piles[p].readable = FALSE]
    /\ UNCHANGED <<guiVars, deal, game, call, solveVars, solver_state, search_started>>

\* app.py lines 449-481: solve_thread converts the game state and, unless the
\* conversion gave nothing, goes on to call solve
SolveThread ==
    /\ solver_state = NotConverted
    /\ solver_state' = from_reader_state(reader_state)
    /\ search_started' = (solver_state' # None)
    /\ UNCHANGED <<guiVars, deal, game, call, solveVars, reader_state>>

ReaderInit ==
    /\ deal = DealB
    /\ game = deal
    /\ call = NoCall
    /\ SolveIdle
    /\ reader_state \in {ReaderNone} \cup {ReaderRead(n, e) : n \in ColCounts, e \in BOOLEAN}
    /\ solver_state = NotConverted
    /\ search_started = FALSE
    /\ GuiIdle

ReaderNext == ReadCard \/ Unreadable \/ SolveThread

ReaderSpec == ReaderInit /\ [][ReaderNext]_vars

(***************************************************************************)
(* execute_solution (solver.py lines 195-268).  exec holds the call: its   *)
(* position, the moves, the index of the next move, the internal game      *)
(* state, what happened to each move so far, and what the call gave.       *)
(***************************************************************************)
\* a read with cards in the stock: the 2 of Spades under the Ace of Clubs
ReaderStock(error) ==
    [ReaderRead(13, error) EXCEPT
        !.piles[1].cards = <<ReaderCard(7, FALSE), ReaderCard(0, FALSE)>>]

\* what solitaire_reader.read_game_state may give
ExecReads == {ReaderNone, ReaderRead(13, TRUE), ReaderStock(FALSE)}

\* the solutions execute_solution is called with; the third holds an empty move
ExecSolutions ==
    { None,
      SolutionState(1, 0, << >>),
      SolutionState(1, 1, << <<DECK>>, <<TALON, FName(1)>> >>),
      SolutionState(1, 1, << <<DECK>>, << >>, <<TALON, FName(1)>> >>),
      SolutionState(1, 0, << <<DECK>>, <<DECK>>, <<TALON, TName(1)>> >>) }

ExecEnded(e, r) == [e EXCEPT !.pc = "done", !.result = r]

\* lines 211-225: the tests on the solution and the first read of the game
ExecCall ==
    /\ exec.pc = "idle"
    /\ \E solution \in ExecSolutions, rs \in ExecReads :
          LET start == [pc |-> "moves",
                        moves |-> IF solution = None THEN << >> ELSE solution.moves,
                        idx |-> 1, game_state |-> from_reader_state(rs),
                        outcomes |-> << >>, result |-> "none"]
          IN  exec' = IF solution = None \/ start.moves = << >>
                      THEN ExecEnded([start EXCEPT !.game_state = None], "False")
                      ELSE IF start.game_state = None THEN ExecEnded(start, "False")
                      ELSE start
    /\ UNCHANGED <<deal, game, call, solveVars, readerVars, consumer, gui, solver_threads,
                   execute_threads, handler>>

\* lines 227-265: one pass of the loop over solution.moves
ExecMove ==
    /\ exec.pc = "moves"
    /\ exec.idx <= Len(exec.moves)
    /\ LET move == exec.moves[exec.idx]
           next == [exec EXCEPT !.idx = @ + 1]
       IN  IF move = << >>
           THEN exec' = [next EXCEPT !.outcomes = Append(@, "skipped")]
           ELSE \E success \in BOOLEAN :
                  IF success
                  THEN LET h == ApplyMoveRun(exec.game_state, move)
                       IN  exec' = IF h.exc # "none"
                                   THEN ExecEnded([exec EXCEPT !.outcomes = Append(@, "ok")],
                                                  "raised")
                                   ELSE [next EXCEPT !.game_state = NewStateOf(h),
                                                     !.outcomes = Append(@, "ok")]
                  ELSE \E rs \in ExecReads :
                         exec' = IF from_reader_state(rs) = None
                                 THEN ExecEnded([exec EXCEPT !.outcomes = Append(@, "failed")],
                                                "False")
                                 ELSE [next EXCEPT !.game_state = from_reader_state(rs),
                                                   !.outcomes = Append(@, "failed")]
    /\ UNCHANGED <<deal, game, call, solveVars, readerVars, consumer, gui, solver_threads,
                   execute_threads, handler>>

\* lines 266-268: the loop is over
ExecReturn ==
    /\ exec.pc = "moves"
    /\ exec.idx > Len(exec.moves)
    /\ exec' = ExecEnded(exec, "True")
    /\ UNCHANGED <<deal, game, call, solveVars, readerVars, consumer, gui, solver_threads,
                   execute_threads, handler>>

ExecInit ==
    /\ deal = DealB
    /\ game = deal
    /\ call = NoCall
    /\ SolveIdle
    /\ ReaderIdle
    /\ GuiIdle

ExecNext == ExecCall \/ ExecMove \/ ExecReturn

ExecSpec == ExecInit /\ [][ExecNext]_vars

(***************************************************************************)
(* The Solve button of the GUI (app.py lines 355-395, 423-518).  DearPyGui *)
(* runs the callbacks one after the other; the solver threads and the      *)
(* refresh run beside them.  solver_threads[i] is the position of the i-th *)
(* thread started: "start", "solve", "finally" or "ended".                 *)
(***************************************************************************)
\* what memory_reader.read_game_state gives the GUI: always a dict
GuiReads == {ReaderRead(13, TRUE), ReaderRead(13, FALSE), ReaderStock(FALSE)}

\* what solve may return to solve_thread
GuiSolutions ==
    { SolutionState(1, 0, << >>),
      SolutionState(1, 1, << <<DECK>>, <<TALON, FName(1)>> >>) }

\* the truth value Python gives self.game_state
Falsy(gs) == gs = None \/ gs.falsy

\* lines 365-382: refresh_game_state stores the read; an error that names the
\* handle or the process drops the connection
refresh_game_state ==
    /\ gui.pm
    /\ \E rs \in GuiReads, lost \in BOOLEAN :
          /\ lost => rs.error
          /\ gui' = [gui EXCEPT !.game_state = rs, !.pm = ~lost]
    /\ UNCHANGED <<deal, game, call, solveVars, readerVars, consumer, exec, solver_threads,
                   execute_threads, handler>>

\* lines 354-363: connect_to_solitaire finds the process or not, and refreshes
connect_to_solitaire ==
    /\ handler = HandlerIdle
    /\ \E found \in BOOLEAN, rs \in GuiReads, lost \in BOOLEAN :
          /\ lost => rs.error
          /\ gui' = IF found THEN [gui EXCEPT !.game_state = rs, !.pm = ~lost]
                    ELSE [gui EXCEPT !.pm = FALSE]
    /\ UNCHANGED <<deal, game, call, solveVars, readerVars, consumer, exec, solver_threads,
                   execute_threads, handler>>

\* the handler without the test of self.solving
SolveClickedUnguarded ==
    /\ handler = HandlerIdle
    /\ Len(solver_threads) < MaxThreads
    /\ IF ~gui.pm \/ Falsy(gui.game_state)
       THEN UNCHANGED <<gui, solver_threads>>
       ELSE /\ gui' = [gui EXCEPT !.solving = TRUE]
            /\ solver_threads' = Append(solver_threads, "start")
    /\ UNCHANGED <<deal, game, call, solveVars, readerVars, consumer, exec, execute_threads,
                   handler>>

\* lines 423-447: on_solve_button_clicked
on_solve_button_clicked ==
    /\ handler = HandlerIdle
    /\ Len(solver_threads) < MaxThreads
    /\ IF gui.solving \/ ~gui.pm \/ Falsy(gui.game_state)
       THEN UNCHANGED <<gui, solver_threads>>
       ELSE /\ gui' = [gui EXCEPT !.solving = TRUE]
            /\ solver_threads' = Append(solver_threads, "start")
    /\ UNCHANGED <<deal, game, call, solveVars, readerVars, consumer, exec, execute_threads,
                   handler>>

\* lines 451-458: solve_thread converts self.game_state; without a solver
\* state it clears solving and returns through the finally clause
SolveThreadConvert ==
    \E i \in 1..Len(solver_threads) :
        /\ solver_threads[i] = "start"
        /\ IF Falsy(gui.game_state) \/ from_reader_state(gui.game_state) = None
           THEN /\ gui' = [gui EXCEPT !.solving = FALSE]
                /\ solver_threads' = [solver_threads EXCEPT ![i] = "finally"]
           ELSE /\ gui' = gui
                /\ solver_threads' = [solver_threads EXCEPT ![i] = "solve"]
        /\ UNCHANGED <<deal, game, call, solveVars, readerVars, consumer, exec,
                       execute_threads, handler>>

\* lines 460-515: solve returns a solution, which is stored, or an exception
\* is caught
SolveThreadRun ==
    \E i \in 1..Len(solver_threads), raised \in BOOLEAN, solution \in GuiSolutions :
        /\ solver_threads[i] = "solve"
        /\ gui' = IF raised THEN gui
                  ELSE [gui EXCEPT !.solution = solution, !.current_step = 0]
        /\ solver_threads' = [solver_threads EXCEPT ![i] = "finally"]
        /\ UNCHANGED <<deal, game, call, solveVars, readerVars, consumer, exec,
                       execute_threads, handler>>

\* lines 517-518: the finally clause, the last statement of the thread
SolveThreadFinally ==
    \E i \in 1..Len(solver_threads) :
        /\ solver_threads[i] = "finally"
        /\ gui' = [gui EXCEPT !.solving = FALSE]
        /\ solver_threads' = [solver_threads EXCEPT ![i] = "ended"]
        /\ UNCHANGED <<deal, game, call, solveVars, readerVars, consumer, exec,
                       execute_threads, handler>>

GuiInit ==
    /\ deal = DealB
    /\ game = deal
    /\ call = NoCall
    /\ SolveIdle
    /\ ReaderIdle
    /\ GuiIdle

SolveGuiNext ==
    \/ refresh_game_state \/ connect_to_solitaire \/ on_solve_button_clicked
    \/ SolveThreadConvert \/ SolveThreadRun \/ SolveThreadFinally

SolveGuiSpec == GuiInit /\ [][SolveGuiNext]_vars

(***************************************************************************)
(* Automatic execution (app.py lines 591-716).  The callbacks execute_auto *)
(* and toggle_execution run one at a time on the GUI's callback thread,    *)
(* statement by statement, beside the execution threads; handler.pc names  *)
(* the line the running callback is at.  execute_threads[k] is the k-th    *)
(* thread started: the line it is at and the index i of its loop.          *)
(***************************************************************************)
At(line) == [pc |-> line]

ExecuteThread(line, i) == [pc |-> line, i |-> i]

\* "not self.solution or not self.solution.moves"
NoMoves(solution) == solution = None \/ solution.moves = << >>

\* the variables the callbacks and the execution threads leave alone
autoRest == <<deal, game, call, solveVars, readerVars, consumer, exec, solver_threads>>

\* the Auto Execute button is pressed
ExecuteAutoClicked ==
    /\ handler = HandlerIdle
    /\ Len(execute_threads) < MaxThreads
    /\ handler' = At("593")
    /\ UNCHANGED <<autoRest, gui, execute_threads>>

\* the Stop/Resume button is pressed
ToggleClicked ==
    /\ handler = HandlerIdle
    /\ handler' = At("703")
    /\ UNCHANGED <<autoRest, gui, execute_threads>>

\* lines 593-612, one statement (or one read of a flag) at a time
execute_auto ==
    /\ handler.pc \in {"593", "593b", "599", "600", "601", "606", "607", "610"}
    /\ handler' =
         CASE handler.pc = "593"  -> IF gui.auto_executing THEN At("593b") ELSE At("599")
           [] handler.pc = "593b" -> IF ~gui.execution_paused THEN HandlerIdle ELSE At("599")
           [] handler.pc = "599"  -> IF gui.execution_paused THEN At("600") ELSE At("606")
           [] handler.pc = "600"  -> At("601")
           [] handler.pc = "601"  -> HandlerIdle
           [] handler.pc = "606"  -> At("607")
           [] handler.pc = "607"  -> At("610")
           [] handler.pc = "610"  -> HandlerIdle
    /\ gui' =
         CASE handler.pc = "600" -> [gui EXCEPT !.execution_paused = FALSE]
           [] handler.pc = "601" -> [gui EXCEPT !.auto_executing = TRUE]
           [] handler.pc = "606" -> [gui EXCEPT !.auto_executing = TRUE]
           [] handler.pc = "607" -> [gui EXCEPT !.execution_paused = FALSE]
           [] OTHER -> gui
    /\ execute_threads' = IF handler.pc = "610"
                          THEN Append(execute_threads, ExecuteThread("620", 0))
                          ELSE execute_threads
    /\ UNCHANGED autoRest

\* lines 703-716, one statement at a time
toggle_execution ==
    /\ handler.pc \in {"703", "707", "709", "714"}
    /\ handler' =
         CASE handler.pc = "703" -> IF ~gui.auto_executing THEN HandlerIdle ELSE At("707")
           [] handler.pc = "707" -> IF gui.execution_paused THEN At("709") ELSE At("714")
           [] OTHER -> HandlerIdle
    /\ gui' =
         CASE handler.pc = "709" -> [gui EXCEPT !.execution_paused = FALSE]
           [] handler.pc = "714" -> [gui EXCEPT !.execution_paused = TRUE]
           [] OTHER -> gui
    /\ UNCHANGED <<autoRest, execute_threads>>

\* lines 620-626: without moves the thread clears auto_executing and returns
\* through the finally clause; else it starts at current_step
ThreadStart ==
    \E k \in 1..Len(execute_threads) :
        /\ execute_threads[k].pc = "620"
        /\ execute_threads' =
             [execute_threads EXCEPT ![k] = IF NoMoves(gui.solution)
                                            THEN ExecuteThread("622", 0)
                                            ELSE ExecuteThread("646", gui.current_step)]
        /\ UNCHANGED <<autoRest, gui, handler>>

\* line 622
ThreadNoSolution ==
    \E k \in 1..Len(execute_threads) :
        /\ execute_threads[k].pc = "622"
        /\ gui' = [gui EXCEPT !.auto_executing = FALSE]
        /\ execute_threads' = [execute_threads EXCEPT ![k].pc = "697"]
        /\ UNCHANGED <<autoRest, handler>>

\* lines 646-662 and 684-685: the tests at the head of the loop.  At 655 the
\* thread sleeps while execution is paused and not stopped.
ThreadLoop ==
    \E k \in 1..Len(execute_threads) :
        LET th == execute_threads[k]
        IN  /\ th.pc \in {"646", "652", "655", "658"}
            /\ th.pc = "655" => ~(gui.execution_paused /\ gui.auto_executing)
            /\ execute_threads' =
                 [execute_threads EXCEPT ![k].pc =
                     CASE th.pc = "646" -> IF th.i >= Len(gui.solution.moves) THEN "685"
                                           ELSE IF ~gui.auto_executing THEN "697" ELSE "652"
                       [] th.pc = "652" -> IF gui.execution_paused THEN "655" ELSE "664"
                       [] th.pc = "655" -> "658"
                       [] th.pc = "658" -> IF ~gui.auto_executing THEN "697" ELSE "664"]
            /\ UNCHANGED <<autoRest, gui, handler>>

\* lines 664-681: the move is executed; after a failure the game state is
\* read again
ThreadMove ==
    \E k \in 1..Len(execute_threads), success \in BOOLEAN, rs \in GuiReads, lost \in BOOLEAN :
        LET th == execute_threads[k]
        IN  /\ th.pc = "664"
            /\ lost => rs.error
            /\ success => (rs = ReaderStock(FALSE) /\ ~lost)
            /\ gui' = IF success \/ ~gui.pm THEN [gui EXCEPT !.current_step = th.i]
                      ELSE [gui EXCEPT !.current_step = th.i, !.game_state = rs,
                                       !.pm = ~lost]
            /\ execute_threads' = [execute_threads EXCEPT ![k] = ExecuteThread("646", th.i + 1)]
            /\ UNCHANGED <<autoRest, handler>>

\* lines 684-698: the end of the loop and the finally clause
ThreadEnd ==
    \E k \in 1..Len(execute_threads) :
        LET th == execute_threads[k]
        IN  /\ th.pc \in {"685", "697", "698"}
            /\ gui' = CASE th.pc = "685" -> [gui EXCEPT !.current_step = Len(gui.solution.moves)]
                        [] th.pc = "697" -> [gui EXCEPT !.auto_executing = FALSE]
                        [] th.pc = "698" -> [gui EXCEPT !.execution_paused = FALSE]
            /\ execute_threads' =
                 [execute_threads EXCEPT ![k].pc =
                     CASE th.pc = "685" -> "697" [] th.pc = "697" -> "698"
                       [] th.pc = "698" -> "ended"]
            /\ UNCHANGED <<autoRest, handler>>

\* the GUI is connected and a solve has ended, with or without a solution
AutoInit ==
    /\ deal = DealB
    /\ game = deal
    /\ call = NoCall
    /\ SolveIdle
    /\ ReaderIdle
    /\ consumer = ConsumerIdle /\ exec = ExecIdle
    /\ \E solution \in {None} \cup GuiSolutions :
          gui = GuiFields(TRUE, ReaderStock(FALSE), solution)
    /\ solver_threads = << >> /\ execute_threads = << >> /\ handler = HandlerIdle

AutoNext ==
    \/ ExecuteAutoClicked \/ ToggleClicked \/ execute_auto \/ toggle_execution
    \/ ThreadStart \/ ThreadNoSolution \/ ThreadLoop \/ ThreadMove \/ ThreadEnd

AutoSpec == AutoInit /\ [][AutoNext]_vars

(***************************************************************************)
(* Properties of the game state (GameSpec).                                *)
(***************************************************************************)
\* how often card id c occurs in a sequence of card ids
Occurrences(q, c) == Cardinality({k \in 1..Len(q) : q[k] = c})

\* how often card id c occurs in state s, a foundation of suit t at rank r
\* standing for the cards of suit t with ranks 0..r
CardCount(s, c) ==
    Occurrences(s.stock, c) + Occurrences(s.waste, c)
    + SumTo([i \in 1..Len(s.tableaus) |->
                Occurrences([k \in 1..Len(s.tableaus[i]) |-> s.tableaus[i][k][1]], c)],
            Len(s.tableaus))
    + (IF card_rank(c) <= s.foundations[card_suit(c) + 1] THEN 1 ELSE 0)

Conserved(s) ==
    /\ \A c \in 0..51 : CardCount(s, c) = 1
    /\ Len(s.stock) + Len(s.waste) + s.foundation_count
       + SumTo([i \in 1..Len(s.tableaus) |-> Len(s.tableaus[i])], Len(s.tableaus)) = 52
    /\ \A k \in 1..4 : s.foundations[k] \in -1..12

\* C1: card conservation. From a deal that holds each of the 52 card ids
\* exactly once, every state reached by moves of available_moves holds each
\* card id exactly once.
C1_CardConservation == Conserved(deal) => Conserved(game)

\* C1 witness: a conserving deal after a recycle of the waste and a move to a
\* foundation
C1_Witness ==
    /\ Conserved(deal)
    /\ game.stock_cycles >= 1
    /\ game.foundation_count > deal.foundation_count
    /\ Len(game.stock) > 0

\* C2: purity of apply_move. The state object apply_move was called on is the
\* same after the call as before it, and a second call on that object with
\* the same move returns a state equal to the first result.
C2_Purity ==
    call.made =>
        /\ call.after = call.self
        /\ call.again_exc = call.exc
        /\ call.exc = "none" => call.again = call.result

\* C2 witness: a call that moved a run of two cards between tableaus and
\* turned the card under it
C2_Witness ==
    /\ call.made
    /\ call.exc = "none"
    /\ Len(call.move) = 3
    /\ call.move[2] = Str(1)
    /\ \E i \in 1..7 :
        LET before == call.self.tableaus[i]
            after == call.result.tableaus[i]
        IN  /\ Len(before) >= 3
            /\ Len(after) = Len(before) - 2
            /\ ~before[Len(after)][2]
            /\ after[Len(after)][2]

Malformed(s, m) ==
    LET isT(x) == StartsWith(x, "T") /\ x # TALON /\ IntOk(Rest(x))
        isF(x) == StartsWith(x, "F") /\ IntOk(Rest(x))
        badT(x) == isT(x) /\ IntOf(Rest(x)) \notin 1..7
        badF(x) == isF(x) /\ IntOf(Rest(x)) \notin 1..4
        emptyT(x) == isT(x) /\ IntOf(Rest(x)) \in 1..7 /\ Len(s.tableaus[IntOf(Rest(x))]) = 0
    IN  \/ Len(m) = 0
        \/ Len(m) > 0 /\
           \/ m[1] = TALON /\ Len(m) # 2
           \/ m[1] = DECK /\ Len(m) # 1
           \/ isT(m[1]) /\ Len(m) \notin {2, 3}
           \/ \E k \in 1..Len(m) : badT(m[k]) \/ badF(m[k])
           \/ Len(m) = 3 /\ isT(m[1]) /\ m[1] = m[3]
           \/ m[1] = TALON /\ Len(s.waste) = 0
           \/ emptyT(m[1])
           \/ m[1] = DECK /\ Len(s.stock) = 0 /\ Len(s.waste) = 0

\* C9: malformed moves are a silent no-op. For a move with a tableau or
\* foundation index outside the valid range, equal source and destination,
\* wrong arity or an empty source pile, apply_move raises no exception and
\* returns a state equal to the one it was called on.
C9_MalformedNoOp ==
    (call.made /\ Malformed(call.self, call.move)) =>
        /\ call.exc = "none"
        /\ call.result = call.self

\* face-down prefix, then a face-up suffix descending by one rank with
\* alternating colours
ValidRun(tableau) ==
    \A k \in 1..(Len(tableau) - 1) :
        /\ tableau[k][2] => tableau[k + 1][2]
        /\ tableau[k][2] =>
              /\ card_rank(tableau[k + 1][1]) = card_rank(tableau[k][1]) - 1
              /\ (card_suit(tableau[k + 1][1]) \in {0, 3}) # (card_suit(tableau[k][1]) \in {0, 3})

RunsValid(s) == \A i \in 1..Len(s.tableaus) : ValidRun(s.tableaus[i])

\* C10: tableau run invariant. If every tableau of the deal is a face-down
\* prefix followed by a face-up run descending by one rank with alternating
\* colours, so is every tableau of every state reached by moves of
\* available_moves.
C10_TableauRuns == RunsValid(deal) => RunsValid(game)

\* C10 witness: a run of two cards was moved to another tableau and the card
\* under it was turned face up
C10_Witness ==
    /\ RunsValid(deal)
    /\ \E i \in 1..7 : /\ Len(deal.tableaus[i]) = 2
                       /\ ~deal.tableaus[i][1][2]
                       /\ game.tableaus[i] = <<Up(deal.tableaus[i][1][1])>>
    /\ \E j \in 1..7 : /\ Len(game.tableaus[j]) = 2
                       /\ Len(deal.tableaus[j]) = 0
                       /\ game.tableaus[j][1][2]

(***************************************************************************)
(* Rules of the game state (GameSpec).                                     *)
(***************************************************************************)
\* other contents for stock, waste and the first tableau
PileVariants ==
    { [stock |-> << >>, waste |-> << >>, tableau |-> << >>],
      [stock |-> <<0, 1>>, waste |-> << >>, tableau |-> <<Up(51)>>],
      [stock |-> << >>, waste |-> <<51>>, tableau |-> <<Down(3), Up(7)>>],
      [stock |-> <<4>>, waste |-> <<8, 9>>, tableau |-> << >>] }

WithPiles(s, v) ==
    [s EXCEPT !.stock = v.stock, !.waste = v.waste, !.tableaus[1] = v.tableau]

\* C11: win predicate. is_won holds iff all four foundation slots hold
\* rank 12, whatever the other piles contain.
C11_WinPredicate ==
    /\ is_won(game) <=> game.foundations = <<12, 12, 12, 12>>
    /\ \A v \in PileVariants : is_won(WithPiles(game, v)) <=> is_won(game)
    /\ (call.made /\ call.exc = "none") =>
          (is_won(call.result) <=> \A k \in 1..4 : call.result.foundations[k] = 12)

\* C11 witness: the last card has been played and the state is won
C11_Witness ==
    /\ ~is_won(deal)
    /\ is_won(game)
    /\ game.foundations = <<12, 12, 12, 12>>

FaceUpCount(s) ==
    SumTo([i \in 1..7 |-> Len(SelectSeq(s.tableaus[i], LAMBDA c : c[2]))], 7)

FaceDownCount(s) ==
    SumTo([i \in 1..7 |-> Len(SelectSeq(s.tableaus[i], LAMBDA c : ~c[2]))], 7)

FoundationVariants == [1..4 -> {-1, 0, 5, 12}]

WithFoundations(s, f) == GameState(s.stock, s.waste, f, s.tableaus, s.stock_cycles)

\* C12: heuristic monotonicity. Of two states that differ only in their
\* foundations the one with the larger foundation_count has the strictly
\* larger heuristic_score, and the score is 10000*foundation_count
\* + 200*faceUp - 1000*faceDown - 30000*stock_cycles - 800*|waste| - 200*|stock|.
C12_Heuristic ==
    ~call.made =>
        /\ heuristic_score(game) =
              10000 * game.foundation_count + 200 * FaceUpCount(game)
              - 1000 * FaceDownCount(game) - 30000 * game.stock_cycles
              - 800 * Len(game.waste) - 200 * Len(game.stock)
        /\ \A f \in FoundationVariants :
              LET other == WithFoundations(game, f)
              IN  /\ other.foundation_count > game.foundation_count
                        => heuristic_score(other) > heuristic_score(game)
                  /\ other.foundation_count < game.foundation_count
                        => heuristic_score(other) < heuristic_score(game)

\* C12 witness: a state after a recycle, with cards in stock and waste,
\* and a state that differs from it in the foundations only, with as many
\* foundations started but more cards on them
C12_Witness ==
    /\ ~call.made
    /\ game.stock_cycles >= 1
    /\ Len(game.waste) >= 1
    /\ Len(game.stock) >= 1
    /\ game.foundation_count > 0
    /\ \E f \in FoundationVariants :
          /\ WithFoundations(game, f).foundation_count > game.foundation_count
          /\ Cardinality({k \in 1..4 : f[k] >= 0})
                = Cardinality({k \in 1..4 : game.foundations[k] >= 0})
          /\ heuristic_score(WithFoundations(game, f)) > heuristic_score(game)

\* C13: Draw. With a nonempty stock the stock's last card goes on top of the
\* waste and stock_cycles stays; with an empty stock and a nonempty waste the
\* stock becomes the reversed waste, the waste is emptied and stock_cycles
\* grows by exactly 1; with both empty the state is unchanged; foundations and
\* tableaus never change. Scenario B gives stock [] and waste [5], Scenario C
\* gives stock [7,3], waste [] and one more cycle.
C13_Draw ==
    /\ (call.made /\ call.move = <<DECK>>) =>
          LET s == call.self
              r == call.result
              n == Len(s.waste)
          IN  /\ call.exc = "none"
              /\ r.foundations = s.foundations
              /\ r.tableaus = s.tableaus
              /\ r.foundation_count = s.foundation_count
              /\ Len(s.stock) > 0 =>
                    /\ r.stock = SubSeq(s.stock, 1, Len(s.stock) - 1)
                    /\ r.waste = s.waste \o <<s.stock[Len(s.stock)]>>
                    /\ r.stock_cycles = s.stock_cycles
              /\ (Len(s.stock) = 0 /\ n > 0) =>
                    /\ r.stock = [i \in 1..n |-> s.waste[n + 1 - i]]
                    /\ r.waste = << >>
                    /\ r.stock_cycles = s.stock_cycles + 1
              /\ (Len(s.stock) = 0 /\ n = 0) => r = s
    /\ <<DECK>> \in Range(available_moves(DealB))
    /\ apply_move(DealB, <<DECK>>) = GameState(<< >>, <<5>>, <<-1, -1, -1, -1>>, NoPiles, 0)
    /\ apply_move(DealC, <<DECK>>) = GameState(<<7, 3>>, << >>, <<-1, -1, -1, -1>>, NoPiles, 1)

\* C13 witness: a waste of several cards has been recycled
C13_Witness ==
    /\ call.made
    /\ call.move = <<DECK>>
    /\ call.self.stock = << >>
    /\ Len(call.self.waste) >= 2
    /\ call.result.stock # call.self.waste
    /\ call.result.stock_cycles = call.self.stock_cycles + 1

\* the waste-to-foundation moves offered in a state
WasteFoundationMoves(s) ==
    {m \in Range(available_moves(s)) : Len(m) = 2 /\ m[1] = TALON /\ StartsWith(m[2], "F")}

\* C14: foundation rule. available_moves contains the waste-to-foundation
\* move iff the waste is nonempty and the rank of its top card is the
\* foundation value of that card's suit plus 1; with all foundations at -1
\* only an Ace goes to a foundation, and a waste top of rank 1 gives no such
\* move.
C14_FoundationRule ==
    LET s == game
        top == s.waste[Len(s.waste)]
    IN  /\ WasteFoundationMoves(s) # {} <=>
              (Len(s.waste) > 0 /\ (top \div 4) = s.foundations[(top % 4) + 1] + 1)
        /\ (Len(s.waste) > 0) =>
              WasteFoundationMoves(s) \subseteq {<<TALON, FName((top % 4) + 1)>>}
        /\ (Len(s.waste) > 0 /\ s.foundations = <<-1, -1, -1, -1>>) =>
              (WasteFoundationMoves(s) # {} <=> (top \div 4) = 0)
        /\ (Len(s.waste) > 0 /\ s.foundations = <<-1, -1, -1, -1>> /\ (top \div 4) = 1) =>
              ~can_move_to_foundation(s, top)

\* C14 witness: with all foundations empty an Ace lies on top of the waste
\* and its move to the foundation is offered
C14_Witness ==
    /\ game.foundations = <<-1, -1, -1, -1>>
    /\ Len(game.waste) > 0
    /\ card_rank(game.waste[Len(game.waste)]) = 0
    /\ WasteFoundationMoves(game) # {}
    /\ ~call.made

(***************************************************************************)
(* Moves and their effects (GameSpec).                                     *)
(***************************************************************************)
\* apply_move was called with a move of available_moves
LegalCall == call.made /\ call.move \in Range(available_moves(call.self))

IsTableauName(x) == StartsWith(x, "T") /\ x # TALON

\* the card a move to a foundation takes
FoundationCard(s, m) ==
    IF m[1] = TALON THEN s.waste[Len(s.waste)]
    ELSE s.tableaus[IntOf(Rest(m[1]))][Len(s.tableaus[IntOf(Rest(m[1]))])][1]

\* C21: foundations grow by one. For every reachable state and every move
\* of available_moves at most one foundation slot changes, it becomes exactly
\* 1 higher and equal to the rank of the moved card, whose suit is the slot's
\* index; no slot ever decreases or exceeds 12.
C21_FoundationsGrow ==
    /\ \A k \in 1..4 : deal.foundations[k] <= game.foundations[k] /\ game.foundations[k] <= 12
    /\ LegalCall =>
          LET s == call.self
              r == call.result
              m == call.move
              changed == {k \in 1..4 : r.foundations[k] # s.foundations[k]}
          IN  /\ call.exc = "none"
              /\ Cardinality(changed) <= 1
              /\ \A k \in 1..4 : s.foundations[k] <= r.foundations[k] /\ r.foundations[k] <= 12
              /\ (changed # {}) <=> (Len(m) = 2 /\ StartsWith(m[2], "F"))
              /\ \A k \in changed :
                    /\ r.foundations[k] = s.foundations[k] + 1
                    /\ r.foundations[k] = FoundationCard(s, m) \div 4
                    /\ k = (FoundationCard(s, m) % 4) + 1

\* C21 witness: a tableau card went to its foundation
C21_Witness ==
    /\ LegalCall
    /\ Len(call.move) = 2
    /\ IsTableauName(call.move[1])
    /\ \E k \in 1..4 : call.result.foundations[k] = call.self.foundations[k] + 1

Red(card_id) == (card_id % 4) \in {1, 2}

\* the placement rule as the rules of the game state it
PlacementRule(card_id, tableau) ==
    \/ Len(tableau) = 0 /\ card_id \div 4 = 12
    \/ /\ Len(tableau) > 0
       /\ tableau[Len(tableau)][2]
       /\ Red(card_id) # Red(tableau[Len(tableau)][1])
       /\ tableau[Len(tableau)][1] \div 4 = (card_id \div 4) + 1

\* C22: tableau placement rule. can_move_to_tableau holds exactly when the
\* tableau is empty and the card is a King, or the tableau's top card is
\* face-up, of the opposite colour and one rank higher; available_moves has
\* the waste-to-tableau move for tableau i iff the waste is nonempty and its
\* top card passes the rule against tableau i.
C22_PlacementRule ==
    /\ (game = deal /\ ~call.made) =>
          \A c \in 0..51 :
              /\ can_move_to_tableau(c, << >>) <=> PlacementRule(c, << >>)
              /\ \A top \in 0..51, up \in BOOLEAN :
                    can_move_to_tableau(c, <<Down(0), <<top, up>> >>)
                        <=> PlacementRule(c, <<Down(0), <<top, up>> >>)
    /\ ~call.made =>
          \A i \in 1..7 :
              /\ \A c \in 0..51 :
                    can_move_to_tableau(c, game.tableaus[i])
                        <=> PlacementRule(c, game.tableaus[i])
              /\ <<TALON, TName(i)>> \in Range(available_moves(game))
                    <=> /\ Len(game.waste) > 0
                        /\ PlacementRule(game.waste[Len(game.waste)], game.tableaus[i])

\* C22 witness: the waste's top card may go on a nonempty tableau and on no
\* empty one
C22_Witness ==
    /\ ~call.made
    /\ Len(game.waste) > 0
    /\ \E i \in 1..7 :
          /\ Len(game.tableaus[i]) > 0
          /\ <<TALON, TName(i)>> \in Range(available_moves(game))
    /\ \E j \in 1..7 :
          /\ Len(game.tableaus[j]) = 0
          /\ <<TALON, TName(j)>> \notin Range(available_moves(game))

\* the cards of a tableau from its first face-up card to the top
FaceUpRun(tableau) ==
    Cardinality({k \in 1..Len(tableau) : \E j \in 1..k : tableau[j][2]})

\* the longest tableau of a state
Longest(s) == CHOOSE n \in 0..52 :
                 /\ \A i \in 1..7 : Len(s.tableaus[i]) <= n
                 /\ \E i \in 1..7 : Len(s.tableaus[i]) = n

\* C23: sequence-move enumeration. available_moves contains the move of n
\* cards from tableau i to tableau j iff i differs from j, the last n cards
\* of tableau i lie within the cards from its first face-up card to the top,
\* and the first of the n cards passes the placement rule against tableau j;
\* no face-down card is part of a moved sequence.
C23_SequenceMoves ==
    /\ ~call.made =>
          /\ \A i, j \in 1..7, n \in 1..(Longest(game) + 1) :
                <<TName(i), Str(n - 1), TName(j)>> \in Range(available_moves(game))
                    <=> /\ i # j
                        /\ n <= FaceUpRun(game.tableaus[i])
                        /\ PlacementRule(game.tableaus[i][Len(game.tableaus[i]) - n + 1][1],
                                         game.tableaus[j])
          /\ \A m \in Range(available_moves(game)) :
                Len(m) = 3 =>
                    /\ IsTableauName(m[1]) /\ IsTableauName(m[3])
                    /\ IntOk(m[2])
                    /\ IntOf(Rest(m[1])) \in 1..7 /\ IntOf(Rest(m[3])) \in 1..7
                    /\ IntOf(m[2]) + 1 \in 1..Longest(game)
                    /\ m = <<TName(IntOf(Rest(m[1]))), Str(IntOf(m[2])), TName(IntOf(Rest(m[3])))>>
    /\ (LegalCall /\ Len(call.move) = 3) =>
          LET src == call.self.tableaus[IntOf(Rest(call.move[1]))]
              left == call.result.tableaus[IntOf(Rest(call.move[1]))]
          IN  /\ Len(left) = Len(src) - (IntOf(call.move[2]) + 1)
              /\ \A k \in (Len(left) + 1)..Len(src) : src[k][2]

\* C23 witness: a run of two cards may be moved, and the source holds a
\* face-down card that no move takes
C23_Witness ==
    /\ ~call.made
    /\ \E i, j \in 1..7 :
          /\ <<TName(i), Str(1), TName(j)>> \in Range(available_moves(game))
          /\ <<TName(i), Str(2), TName(j)>> \notin Range(available_moves(game))
          /\ Len(game.tableaus[i]) = 3
          /\ ~game.tableaus[i][1][2]

\* C24: Draw legality. available_moves contains Draw exactly once if the
\* stock or the waste is nonempty and not at all when both are empty; it is
\* empty only in states with empty stock and waste and no playable tableau
\* card.
C24_DrawLegality ==
    LET moves == available_moves(game)
        draws == {k \in 1..Len(moves) : moves[k] = <<DECK>>}
    IN  /\ (Len(game.stock) > 0 \/ Len(game.waste) > 0) => Cardinality(draws) = 1
        /\ (Len(game.stock) = 0 /\ Len(game.waste) = 0) => draws = {}
        /\ moves = << >> =>
              /\ game.stock = << >>
              /\ game.waste = << >>
              /\ \A i \in 1..7 :
                    Len(game.tableaus[i]) > 0 =>
                        LET c == game.tableaus[i][Len(game.tableaus[i])][1]
                        IN  /\ c \div 4 # game.foundations[(c % 4) + 1] + 1
                            /\ \A j \in 1..7 : j # i => ~PlacementRule(c, game.tableaus[j])

\* C24 witness: the stock is empty, the waste is not, and Draw is offered
\* once, as the last move
C24_Witness ==
    /\ ~call.made
    /\ game.stock = << >>
    /\ Len(game.waste) > 0
    /\ Len(available_moves(game)) >= 2
    /\ available_moves(game)[Len(available_moves(game))] = <<DECK>>
    /\ game.stock_cycles >= 1

\* C25: flip rule and frame of tableau moves. After a tableau-to-foundation
\* move or a sequence move from tableau i, a nonempty tableau i has a face-up
\* top card; the other cards left in tableau i and all cards of the tableaus
\* other than source and destination are unchanged, as are stock, waste and
\* stock_cycles; the moved cards arrive on the destination in their order.
C25_FlipAndFrame ==
    (LegalCall /\ IsTableauName(call.move[1])) =>
        LET s == call.self
            r == call.result
            m == call.move
            i == IntOf(Rest(m[1]))
            n == IF Len(m) = 3 THEN IntOf(m[2]) + 1 ELSE 1
            left == Len(s.tableaus[i]) - n
        IN  /\ call.exc = "none"
            /\ r.stock = s.stock /\ r.waste = s.waste /\ r.stock_cycles = s.stock_cycles
            /\ Len(r.tableaus[i]) = left
            /\ left > 0 =>
                  /\ r.tableaus[i][left] = <<s.tableaus[i][left][1], TRUE>>
                  /\ \A k \in 1..(left - 1) : r.tableaus[i][k] = s.tableaus[i][k]
            /\ Len(m) = 2 =>
                  \A j \in 1..7 : j # i => r.tableaus[j] = s.tableaus[j]
            /\ Len(m) = 3 =>
                  LET d == IntOf(Rest(m[3]))
                  IN  /\ r.foundations = s.foundations
                      /\ r.tableaus[d] =
                            s.tableaus[d] \o SubSeq(s.tableaus[i], left + 1, Len(s.tableaus[i]))
                      /\ \A j \in 1..7 : (j # i /\ j # d) => r.tableaus[j] = s.tableaus[j]

\* C25 witness: one card was moved off a face-down card, which was turned
\* face up, onto another tableau
C25_Witness ==
    /\ LegalCall
    /\ Len(call.move) = 3
    /\ call.move[2] = Str(0)
    /\ LET i == IntOf(Rest(call.move[1]))
           d == IntOf(Rest(call.move[3]))
       IN  /\ Len(call.result.tableaus[i]) = 1
           /\ ~call.self.tableaus[i][1][2]
           /\ call.result.tableaus[i][1][2]
           /\ Len(call.result.tableaus[d]) = Len(call.self.tableaus[d]) + 1

\* rank + 1 summed over the non-empty foundation slots
CardsOnFoundations(f) ==
    SumTo([k \in 1..4 |-> IF f[k] >= 0 THEN f[k] + 1 ELSE 0], 4)

\* C30: cached foundation_count. In every GameState made by the
\* constructor or returned by apply_move, foundation_count is the sum of
\* rank + 1 over the non-empty foundation slots; in every state reached by
\* legal moves it lies in 0..52 and is 52 exactly when is_won holds.
C30_FoundationCount ==
    /\ deal.foundation_count = CardsOnFoundations(deal.foundations)
    /\ game.foundation_count = CardsOnFoundations(game.foundations)
    /\ game.foundation_count \in 0..52
    /\ game.foundation_count = 52 <=> is_won(game)
    /\ (call.made /\ call.exc = "none") =>
          /\ call.result.foundation_count = CardsOnFoundations(call.result.foundations)
          /\ call.after.foundation_count = CardsOnFoundations(call.after.foundations)

\* C30 witness: a move to a foundation raised the count by one
C30_Witness ==
    /\ LegalCall
    /\ call.result.foundation_count = call.self.foundation_count + 1
    /\ call.result.foundation_count < 52
    /\ call.move[1] = TALON

(***************************************************************************)
(* Properties of solve (Spec, LongSpec).                                   *)
(***************************************************************************)
\* a won state has been expanded
WonRecorded == \E k \in 1..Len(expanded) : is_won(expanded[k].state)

\* the path lengths of the won states expanded
WonLens == {expanded[k].len : k \in {j \in 1..Len(expanded) : is_won(expanded[j].state)}}

\* C3: whatever ends the search, solve returns best_winning if a won state
\* was recorded during the search, and otherwise best_partial.
C3_ReturnsBest ==
    pc = "done" =>
        /\ WonRecorded => (best_winning_solution # None /\ result = best_winning_solution)
        /\ ~WonRecorded => (best_winning_solution = None /\ result = best_solution)
        /\ deal = DealB => (result.foundation_count = 0 /\ result.moves = << >>)

\* C3 witness: the frontier ran empty before the budget did, after a won
\* state was expanded, and the winning solution was returned
C3_Witness ==
    /\ pc = "done"
    /\ heap = {}
    /\ ~stopped_by_user
    /\ iterations < max_iterations
    /\ WonRecorded
    /\ result = best_winning_solution
    /\ result.id # best_solution.id

ScenarioA(s) == \E k \in 1..7 : s = DealA(k)

\* C4 as claimed: on Scenario A solve returns, for every max_iterations >= 1
\* and every heuristic_weight >= 0 and without cancellation, a winning
\* solution of exactly 1 move.
C4_AnyBudget ==
    (ScenarioA(deal) /\ pc = "done" /\ ~stopped_by_user) =>
        /\ result.foundation_count = 52
        /\ Len(result.moves) = 1

\* C4 amended: on Scenario A available_moves contains the tableau-to-
\* foundation move of the King's tableau, applying it gives foundations
\* [12,12,12,12] and a won state, and solve returns, for every
\* max_iterations >= 2 and every heuristic_weight >= 0 and without
\* cancellation, the winning solution made of exactly that move.
C4_ScenarioA ==
    \A k \in 1..7 :
        deal = DealA(k) =>
            LET m == <<TName(k), FName(4)>>
            IN  /\ m \in Range(available_moves(deal))
                /\ apply_move(deal, m).foundations = <<12, 12, 12, 12>>
                /\ is_won(apply_move(deal, m))
                /\ (pc = "done" /\ ~stopped_by_user /\ max_iterations >= 2) =>
                      /\ result = best_winning_solution
                      /\ result.foundation_count = 52
                      /\ result.moves = <<m>>

\* C4 witness: solve has returned the one-move win on Scenario A with a
\* budget of 2
C4_Witness ==
    /\ deal = DealA(4)
    /\ max_iterations = 2
    /\ pc = "done"
    /\ ~stopped_by_user
    /\ result.moves = << <<TName(4), FName(4)>> >>

Min(S) == CHOOSE x \in S : \A y \in S : x <= y

\* C5: anytime search. Expanding a won state does not end the loop;
\* best_winning is set when the first won state is expanded and afterwards
\* replaced only by a path with strictly fewer moves, so its length never
\* increases and it is the shortest path among the won states expanded, which
\* is what solve returns.
C5_Anytime ==
    [][ /\ (Len(expanded') > Len(expanded) /\ is_won(expanded'[Len(expanded')].state))
            => (pc' = "loop" /\ best_winning_solution' # None)
        /\ (best_winning_solution = None /\ best_winning_solution' # None)
            => /\ Len(expanded') > Len(expanded)
               /\ is_won(expanded'[Len(expanded')].state)
               /\ Len(best_winning_solution'.moves) = expanded'[Len(expanded')].len
        /\ best_winning_solution # None
            => /\ best_winning_solution' # None
               /\ \/ best_winning_solution' = best_winning_solution
                  \/ Len(best_winning_solution'.moves) < Len(best_winning_solution.moves)
        /\ (best_winning_solution' = None) <=> (WonLens' = {})
        /\ best_winning_solution' # None
            => Len(best_winning_solution'.moves) = Min(WonLens')
        /\ (pc' = "done" /\ best_winning_solution' # None)
            => result' = best_winning_solution'
      ]_vars

\* C5 witness: a second won state was expanded with a shorter path, the
\* winning solution was replaced, and the search went on
C5_Witness ==
    /\ pc = "loop"
    /\ best_winning_solution # None
    /\ best_winning_solution.id = 2
    /\ Cardinality(WonLens) = 2
    /\ Len(best_winning_solution.moves) = Min(WonLens)
    /\ ~is_won(expanded[Len(expanded)].state)

SameComponents(a, b) ==
    /\ a.stock = b.stock
    /\ a.waste = b.waste
    /\ a.foundations = b.foundations
    /\ a.tableaus = b.tableaus
    /\ a.stock_cycles = b.stock_cycles

\* C6: deduplication. States with identical stock, waste, foundations,
\* tableaus and stock_cycles have the same visited key and states differing
\* in one of them have different keys; no key is expanded twice, so of two
\* frontier entries with the same state at most one is expanded.
C6_Dedup ==
    /\ \A a, b \in {e.state : e \in heap} \cup {expanded[k].state : k \in 1..Len(expanded)} :
          SameComponents(a, b) <=> StateKey(a) = StateKey(b)
    /\ \A i, j \in 1..Len(expanded) :
          i # j => ~SameComponents(expanded[i].state, expanded[j].state)
    /\ visited = {StateKey(expanded[k].state) : k \in 1..Len(expanded)}

\* C6 witness: the frontier holds two entries reached by different move
\* sequences whose states are identical, and that state has been expanded
C6_Witness ==
    \E a, b \in heap :
        /\ a.path # b.path
        /\ SameComponents(a.state, b.state)
        /\ \E k \in 1..Len(expanded) : SameComponents(expanded[k].state, a.state)

\* the only legal move is Draw, now and after any number of draws: the
\* tableaus are empty and no card of stock or waste is a King or fits its
\* foundation
DrawOnly(s) ==
    /\ \A i \in 1..7 : s.tableaus[i] = << >>
    /\ s.stock \o s.waste # << >>
    /\ \A c \in Range(s.stock \o s.waste) :
          /\ card_rank(c) # 12
          /\ ~can_move_to_foundation(s, c)

\* a state produced by recycling the waste into the stock is in the frontier
\* or has been expanded
Recycled ==
    \E s \in {e.state : e \in heap} \cup {expanded[k].state : k \in 1..Len(expanded)} :
        s.stock_cycles >= 1

\* C7 as claimed: on a draw-only deal solve ends within the budget because
\* a recycled state equals a state already seen and is pruned by the visited
\* set.
C7_PrunedByVisited ==
    (DrawOnly(deal) /\ pc = "done" /\ ~stopped_by_user) =>
        /\ iterations <= max_iterations
        /\ Recycled => pruned > 0

\* C7 amended: on a draw-only deal solve terminates within the iteration
\* budget, and only the budget ends it: every recycle raises stock_cycles,
\* which is part of the visited key, so no recycled state equals a state
\* already seen, nothing is pruned, and without cancellation the loop ends
\* with iterations = max_iterations and a frontier that is not empty.
C7_BudgetEnds ==
    /\ [](DrawOnly(deal) =>
            /\ iterations <= max_iterations
            /\ pruned = 0
            /\ \A i, j \in 1..Len(expanded) :
                  i < j => expanded[i].state.stock_cycles <= expanded[j].state.stock_cycles
            /\ \A i, j \in 1..Len(expanded) :
                  (/\ i # j
                   /\ expanded[i].state.stock = expanded[j].state.stock
                   /\ expanded[i].state.waste = expanded[j].state.waste)
                  => expanded[i].state.stock_cycles # expanded[j].state.stock_cycles
            /\ (pc = "done" /\ ~stopped_by_user) =>
                  (iterations = max_iterations /\ heap # {}))
    /\ (DrawOnly(deal) ~> pc = "done")

\* C7 witness: a draw-only search has recycled the waste, expanded the
\* recycled state and ended on the budget
C7_Witness ==
    /\ DrawOnly(deal)
    /\ pc = "done"
    /\ ~stopped_by_user
    /\ iterations = max_iterations
    /\ \E k \in 1..Len(expanded) :
          /\ expanded[k].state.stock_cycles >= 1
          /\ expanded[k].state.stock = deal.stock
          /\ expanded[k].state.waste = deal.waste

\* C8: cancellation. The stop condition can be asserted at the head of
\* every loop iteration; once it is, no frontier entry is popped or expanded,
\* best_partial and best_winning keep the values they had, and solve returns
\* best_winning if set, else best_partial.
C8_Cancellation ==
    [][ /\ (pc = "loop" /\ LoopRuns) => ENABLED Cancel
        /\ (~stopped_by_user /\ stopped_by_user') => (pc = "loop" /\ LoopRuns)
        /\ stopped_by_user' =>
              /\ heap' = heap
              /\ visited' = visited
              /\ expanded' = expanded
              /\ iterations' = iterations
              /\ pruned' = pruned
              /\ best_solution' = best_solution
              /\ best_winning_solution' = best_winning_solution
              /\ pc' # "loop"
              /\ pc' = "done" =>
                    result' = IF best_winning_solution # None
                                THEN best_winning_solution ELSE best_solution
      ]_vars

\* C8 witness: the search was cancelled with entries left in the frontier
\* and a winning solution recorded, which was returned
C8_Witness ==
    /\ pc = "done"
    /\ stopped_by_user
    /\ heap # {}
    /\ iterations < max_iterations
    /\ best_winning_solution # None
    /\ result = best_winning_solution

(***************************************************************************)
(* Progress reports and accounting of solve (Spec, FairSpec).              *)
(***************************************************************************)
\* C15: snapshot immutability. No object handed to the progress callback
\* (the best_partial solution, the best_winning solution, the status object)
\* is modified by solve afterwards: what the callback was given still has
\* the value it had at the call.
C15_SnapshotsKept ==
    \A k \in 1..Len(callbacks) :
        LET c == callbacks[k]
        IN  /\ c.best_solution.id = best_solution.id => c.best_solution = best_solution
            /\ (/\ c.best_winning_solution # None
                /\ best_winning_solution # None
                /\ c.best_winning_solution.id = best_winning_solution.id)
                  => c.best_winning_solution = best_winning_solution
            /\ c.message = message
            /\ c.stopped_by_user = stopped_by_user

\* the step pops a frontier entry
Pops == pc = "loop" /\ heap # {} /\ HeapTop(heap) \notin heap'

\* report k of the next state was made before the entry was popped
BeforePop(k) == k <= Len(callbacks) \/ callbacks'[k].at = "head"

\* C16: progress reporting. The callback is invoked every 100 expansions and
\* each time best_partial or best_winning changes, before the next frontier
\* entry is popped, with the iteration count, the budget, both bests and a
\* status message: when an entry is popped, the bests of that moment have
\* been reported.
C16_BestsReported ==
    [][ Pops =>
          /\ iterations % ReportEvery = 0 =>
                \E k \in (Len(callbacks) + 1)..Len(callbacks') :
                    /\ callbacks'[k].at = "head"
                    /\ callbacks'[k].iterations = iterations
          /\ \E k \in 1..Len(callbacks') :
                /\ BeforePop(k)
                /\ callbacks'[k].max_iterations = max_iterations
                /\ callbacks'[k].best_solution = best_solution
                /\ callbacks'[k].best_winning_solution = best_winning_solution
      ]_vars

\* entries popped and found visited so far
Discarded == (counter + 1 - Cardinality(heap)) - Len(expanded)

\* C17: iteration accounting. At every loop head the iteration counter is
\* the number of keys in the visited set, the number of states expanded, and
\* at most max_iterations; popping an entry whose key is visited changes
\* neither the counter, nor the visited set, nor the bests, and pushes nothing.
C17_IterationAccounting ==
    /\ [](pc = "loop" =>
            /\ iterations = Cardinality(visited)
            /\ iterations = Len(expanded)
            /\ iterations <= max_iterations)
    /\ [][ (/\ pc = "loop" /\ LoopRuns
            /\ ~stopped_by_user'
            /\ StateKey(HeapTop(heap).state) \in visited)
           => /\ iterations' = iterations
              /\ visited' = visited
              /\ best_solution' = best_solution
              /\ best_winning_solution' = best_winning_solution
              /\ heap' = heap \ {HeapTop(heap)}
              /\ counter' = counter
              /\ expanded' = expanded
         ]_vars

\* C17 witness: back at the loop head after an entry with a visited key was
\* popped and dropped
C17_Witness ==
    /\ pc = "loop"
    /\ Discarded >= 1
    /\ iterations >= 2
    /\ iterations = Cardinality(visited)
    /\ heap # {}

\* C20: normal termination. For the deals, budgets and weights of the
\* model the loop of solve terminates; each loop iteration either discards
\* one frontier entry without pushing, or expands one new state and counts one
\* iteration; the loop is left on an empty frontier, an exhausted budget or a
\* cancellation, and solve then returns a solution: no move tried by an
\* expansion raises.
C20_NormalTermination ==
    /\ <>(pc = "done")
    /\ [](/\ pc \in {"final", "done"} =>
                (stopped_by_user \/ heap = {} \/ iterations >= max_iterations)
          /\ pc = "done" =>
                /\ result # None
                /\ result \in {best_solution, best_winning_solution}
                /\ result.foundation_count \in 0..52
          /\ expanded # << >> =>
                LET s == expanded[Len(expanded)].state
                IN  \A m \in Range(available_moves(s)) : ApplyMoveRun(s, m).exc = "none")
    /\ [][ (pc = "loop" /\ pc' = "loop") =>
              LET e == HeapTop(heap)
              IN  \/ /\ StateKey(e.state) \in visited
                     /\ heap' = heap \ {e}
                     /\ iterations' = iterations
                     /\ visited' = visited
                  \/ /\ StateKey(e.state) \notin visited
                     /\ e \notin heap'
                     /\ visited' = visited \cup {StateKey(e.state)}
                     /\ iterations' = iterations + 1
                     /\ Len(expanded') = Len(expanded) + 1
         ]_vars

\* C20 witness: the budget ran out with entries left in the frontier and
\* no win, and the partial solution was returned
C20_Witness ==
    /\ pc = "done"
    /\ ~stopped_by_user
    /\ heap # {}
    /\ iterations = max_iterations
    /\ max_iterations >= 3
    /\ result = best_solution
    /\ result.foundation_count > 0
    /\ Len(result.moves) > 0

(***************************************************************************)
(* Sequence moves and face-up cards (GameSpec).                            *)
(***************************************************************************)
\* C36: sequence-move encoding round trip. For every move [Ti, k, Tj] of
\* available_moves, apply_move removes exactly the last k + 1 cards of
\* tableau i, which are all face-up and are the cards available_moves
\* validated, and appends them in the same order to tableau j; describe_move
\* reports k + 1 cards for the same move.
C36_SequenceRoundTrip ==
    (LegalCall /\ Len(call.move) = 3) =>
        LET m == call.move
            s == call.self
            r == call.result
            i == IntOf(Rest(m[1]))
            j == IntOf(Rest(m[3]))
            k == IntOf(m[2])
            src == s.tableaus[i]
            run == SubSeq(src, Len(src) - k, Len(src))
            d == describe_move(m)
        IN  /\ m = <<TName(i), Str(k), TName(j)>>
            /\ k >= 0 /\ k + 1 <= Len(src)
            /\ Len(run) = k + 1
            /\ \A n \in 1..Len(run) : run[n][2]
            /\ PlacementRule(run[1][1], s.tableaus[j])
            /\ Len(r.tableaus[i]) = Len(src) - (k + 1)
            /\ \A n \in 1..(Len(src) - k - 2) : r.tableaus[i][n] = src[n]
            /\ r.tableaus[j] = s.tableaus[j] \o run
            /\ d.text = "Move {} cards from Tableau {} to Tableau {}"
            /\ IntOf(d.args[1]) = k + 1
            /\ IntOf(d.args[1]) = Len(r.tableaus[j]) - Len(s.tableaus[j])
            /\ d.args[2] = Str(i) /\ d.args[3] = Str(j)

\* C36 witness: a run of two cards was moved and described as 2 cards
C36_Witness ==
    /\ LegalCall
    /\ Len(call.move) = 3
    /\ call.move[2] = Str(1)
    /\ describe_move(call.move).args[1] = Str(2)
    /\ Len(call.result.tableaus[IntOf(Rest(call.move[3]))])
          = Len(call.self.tableaus[IntOf(Rest(call.move[3]))]) + 2

\* every nonempty tableau has a face-up top card
TopsFaceUp(s) ==
    \A i \in 1..7 : Len(s.tableaus[i]) > 0 => s.tableaus[i][Len(s.tableaus[i])][2]

\* card c lies in a tableau of s with the face-up flag up
LiesWithFlag(s, c, up) ==
    \E i \in 1..7 : \E k \in 1..Len(s.tableaus[i]) : s.tableaus[i][k] = <<c, up>>

\* C37: top cards stay face-up. If every nonempty tableau of the initial
\* state has a face-up top card, so has every state reached by moves of
\* available_moves; a card turns from face-down to face-up only when it
\* becomes the top card of its tableau by a move away from that tableau, and
\* no card ever turns from face-up to face-down.
C37_TopsStayFaceUp ==
    /\ TopsFaceUp(deal) => TopsFaceUp(game)
    /\ \A c \in 0..51 :
          (deal.foundations[(c % 4) + 1] < c \div 4 /\ LiesWithFlag(game, c, FALSE))
              => LiesWithFlag(deal, c, FALSE)
    /\ LegalCall =>
          LET s == call.self
              r == call.result
              m == call.move
          IN  /\ TopsFaceUp(s) => TopsFaceUp(r)
              /\ \A c \in 0..51 :
                    /\ (LiesWithFlag(s, c, TRUE) /\ s.foundations = r.foundations)
                          => LiesWithFlag(r, c, TRUE)
                    /\ ~(LiesWithFlag(s, c, TRUE) /\ LiesWithFlag(r, c, FALSE))
                    /\ (LiesWithFlag(s, c, FALSE) /\ LiesWithFlag(r, c, TRUE)) =>
                          \E i \in 1..7 :
                              /\ m[1] = TName(i)
                              /\ Len(r.tableaus[i]) > 0
                              /\ Len(r.tableaus[i]) < Len(s.tableaus[i])
                              /\ r.tableaus[i][Len(r.tableaus[i])] = <<c, TRUE>>
                              /\ s.tableaus[i][Len(r.tableaus[i])] = <<c, FALSE>>

\* C37 witness: a card dealt face down lies face up and the card that came
\* from the waste lies face up on a tableau
C37_Witness ==
    /\ ~call.made
    /\ TopsFaceUp(game)
    /\ \E c \in 0..51 : LiesWithFlag(deal, c, FALSE) /\ LiesWithFlag(game, c, TRUE)
    /\ \E c \in Range(deal.waste) : LiesWithFlag(game, c, TRUE)

(***************************************************************************)
(* Search order of solve (Spec).                                           *)
(***************************************************************************)
Last(seq) == seq[Len(seq)]

\* <<p1, c1>> is before <<p2, c2>> in the order of the frontier
FrontierBefore(a, b) == a[1] < b[1] \/ (a[1] = b[1] /\ a[2] < b[2])

\* an entry has just been expanded
JustExpanded == Len(expanded') = Len(expanded) + 1

\* C26: frontier order. solve always expands the frontier entry with the
\* smallest priority and, of the entries with that priority, the one with the
\* smallest insertion counter; a pushed successor has priority (cost of the
\* parent + 1) - heuristic_weight * heuristic_score(successor); insertion
\* counters are strictly increasing and never reused, so no two entries are
\* equal on (priority, counter).
C26_FrontierOrder ==
    /\ [](\A a, b \in heap : (a # b) => a.counter # b.counter)
    /\ [](\A a \in heap :
            /\ a.counter <= counter
            /\ a.cost = Len(a.path)
            /\ a.priority = a.cost - heuristic_weight * heuristic_score(a.state))
    /\ [](\A k \in 1..Len(expanded) :
            /\ \A f \in expanded[k].frontier :
                  \/ f = <<expanded[k].priority, expanded[k].counter>>
                  \/ FrontierBefore(<<expanded[k].priority, expanded[k].counter>>, f)
            /\ \A j \in 1..(k - 1) : expanded[j].counter # expanded[k].counter)
    /\ [][JustExpanded =>
            LET x == Last(expanded')
                new == heap' \ heap
            IN  /\ \E e \in heap :
                      /\ e.state = x.state /\ e.path = x.path
                      /\ e.priority = x.priority /\ e.counter = x.counter
                      /\ e \notin heap'
                      /\ heap \ heap' = {e}
                      /\ \A o \in heap :
                            \/ e.priority < o.priority
                            \/ e.priority = o.priority /\ e.counter <= o.counter
                /\ x.frontier = {<<o.priority, o.counter>> : o \in heap}
                /\ \A n \in new :
                      /\ n.priority = (x.len + 1) - heuristic_weight * heuristic_score(n.state)
                      /\ n.counter > counter /\ n.counter <= counter'
                      /\ \A o \in heap : o.counter < n.counter
                /\ counter' = counter + Cardinality(new)]_vars

\* C26 witness: an entry was expanded while the frontier held another entry
\* of the same priority, pushed later, and an entry of greater priority that
\* had been pushed before both
C26_Witness ==
    \E k \in 1..Len(expanded) :
        \E f, g \in expanded[k].frontier :
            /\ f[1] = expanded[k].priority /\ f[2] > expanded[k].counter
            /\ g[1] > expanded[k].priority /\ g[2] < expanded[k].counter

\* the states that at most k moves of available_moves lead to from s0
RECURSIVE ReachWithin(_, _)
ReachWithin(s0, k) ==
    IF k <= 0 THEN {s0}
    ELSE LET R == ReachWithin(s0, k - 1)
         IN  R \cup UNION {{apply_move(s, m) : m \in Range(available_moves(s))} : s \in R}

\* the state a sequence of moves leads to
RECURSIVE Replay(_, _)
Replay(s, path) ==
    IF path = << >> THEN s ELSE Replay(apply_move(s, Head(path)), Tail(path))

\* fewer than n moves lead from the deal to the state
ShorterPath(state, n) == n > 0 /\ state \in ReachWithin(deal, n - 1)

\* C27: uniform-cost degeneration. With heuristic_weight = 0 the states are
\* expanded in non-decreasing order of path length, each state is expanded
\* with a path of the least length that leads to it from the initial state,
\* the first winning path recorded has the least number of moves of all
\* winning paths, and it is never replaced later in the run.
C27_UniformCost ==
    /\ [](heuristic_weight = 0 =>
            /\ \A k \in 1..(Len(expanded) - 1) : expanded[k].len <= expanded[k + 1].len
            /\ \A k \in 1..Len(expanded) :
                  /\ expanded[k].len = Len(expanded[k].path)
                  /\ expanded[k].state = Replay(deal, expanded[k].path)
            /\ expanded # << >> => ~ShorterPath(Last(expanded).state, Last(expanded).len)
            /\ best_winning_solution # None =>
                  \A s \in ReachWithin(deal, Len(best_winning_solution.moves) - 1) :
                      Len(best_winning_solution.moves) = 0 \/ ~is_won(s))
    /\ [][(heuristic_weight = 0 /\ best_winning_solution # None)
            => best_winning_solution' = best_winning_solution]_vars

\* C27 witness: with heuristic_weight = 0 a winning path of five moves was
\* recorded, entries that led to expanded states by longer paths were thrown
\* away, and the search went on after the win
C27_Witness ==
    /\ heuristic_weight = 0
    /\ best_winning_solution # None
    /\ Len(best_winning_solution.moves) = 5
    /\ pruned > 0
    /\ ~is_won(Last(expanded).state)
    /\ Last(expanded).len >= 5

\* the kind of a move: 1 waste to foundation, 2 tableau to foundation,
\* 3 tableau to tableau, 4 waste to tableau, 5 Draw
MoveClass(m) ==
    IF m = <<DECK>> THEN 5
    ELSE IF m[1] = TALON THEN (IF m[2][1] = "F" THEN 1 ELSE 4)
    ELSE IF Len(m) = 2 THEN 2
    ELSE 3

\* the place of a move in a list of moves
PlaceOf(moves, m) == CHOOSE i \in 1..Len(moves) : moves[i] = m

\* q holds the moves of p, each as often as p
PermutationOf(q, p) ==
    /\ Len(q) = Len(p)
    /\ \A m \in Range(p) \cup Range(q) :
          Cardinality({i \in 1..Len(p) : p[i] = m}) = Cardinality({i \in 1..Len(q) : q[i] = m})

\* the moves of a state as solve tries them
Ordered(s) == prioritize_moves(available_moves(s))

\* C28: move ordering. prioritize_moves returns a permutation of its input in
\* which waste-to-foundation moves come before tableau-to-foundation moves,
\* these before tableau-to-tableau moves, these before waste-to-tableau moves,
\* and Draw last; the successors are pushed in this order, so of two
\* successors of one state with equal priority the one with the earlier move
\* is expanded first. Stated of the entry expanded last: of its moves, of the
\* entries pushed for it, and of it and the entries expanded before it.
C28_MoveOrdering ==
    expanded # << >> =>
        LET x == Last(expanded)
            given == available_moves(x.state)
            tried == prioritize_moves(given)
            pushed == {e \in heap : e.path # << >> /\ Front(e.path) = x.path}
            parent == CHOOSE k \in 1..Len(expanded) : expanded[k].path = Front(x.path)
            order == Ordered(expanded[parent].state)
        IN  /\ PermutationOf(tried, given)
            /\ \A i, j \in 1..Len(tried) :
                  i < j => MoveClass(tried[i]) <= MoveClass(tried[j])
            /\ \A a \in pushed :
                  /\ Last(a.path) \in Range(tried)
                  /\ a.state = apply_move(x.state, Last(a.path))
                  /\ \A b \in pushed :
                        a.counter < b.counter
                            <=> PlaceOf(tried, Last(a.path)) < PlaceOf(tried, Last(b.path))
            /\ \A i \in 1..(Len(expanded) - 1) :
                  (/\ x.len > 0 /\ expanded[i].len > 0
                   /\ Front(expanded[i].path) = Front(x.path)
                   /\ expanded[i].priority = x.priority)
                  => PlaceOf(order, Last(expanded[i].path)) < PlaceOf(order, Last(x.path))

\* C28 witness: two successors of one state with equal priority were
\* expanded, the first by a tableau-to-tableau move and the second by a
\* waste-to-tableau move, which available_moves lists in the other order
C28_Witness ==
    \E i, j \in 1..Len(expanded) :
        /\ i < j
        /\ expanded[i].len > 0 /\ expanded[j].len > 0
        /\ Front(expanded[i].path) = Front(expanded[j].path)
        /\ expanded[i].priority = expanded[j].priority
        /\ MoveClass(Last(expanded[i].path)) = 3
        /\ MoveClass(Last(expanded[j].path)) = 4

\* the greatest of 0 and the foundation_count of the states expanded so far
MaxExpanded ==
    LET counts == {0} \cup {expanded[k].state.foundation_count : k \in 1..Len(expanded)}
    IN  CHOOSE n \in counts : \A o \in counts : o <= n

\* the first expansion of a state with the greatest foundation_count
FirstAtMax ==
    CHOOSE k \in 1..Len(expanded) :
        /\ expanded[k].state.foundation_count = MaxExpanded
        /\ \A j \in 1..(k - 1) : expanded[j].state.foundation_count < MaxExpanded

\* C29: best_partial tracks the maximum. After each expansion
\* best_partial.foundation_count is the maximum of 0 and the foundation_count
\* of all states expanded so far, it never decreases during a run, and
\* best_partial.moves is the path of the first expanded state that reached
\* that maximum.
C29_BestPartial ==
    /\ [](best_solution.foundation_count = MaxExpanded)
    /\ [](IF expanded = << >> THEN best_solution.moves = << >>
          ELSE best_solution.moves = expanded[FirstAtMax].path)
    /\ [][best_solution'.foundation_count >= best_solution.foundation_count]_vars

\* C29 witness: the count grew during the run, and a state with the greatest
\* count was expanded again later, by another path
C29_Witness ==
    /\ Len(expanded) >= 2
    /\ MaxExpanded > expanded[1].state.foundation_count
    /\ \E k \in 1..Len(expanded) :
          /\ k > FirstAtMax
          /\ expanded[k].state.foundation_count = MaxExpanded
          /\ expanded[k].path # best_solution.moves

(***************************************************************************)
(* Paths, wins and the end of solve (Spec, LongSpec).                      *)
(***************************************************************************)
\* every frontier entry is reached by its path, and its cost is the length
\* of the path
EntriesReplay ==
    \A e \in heap : Replay(deal, e.path) = e.state /\ e.cost = Len(e.path)

\* best_partial's moves lead to a state with best_partial's foundation_count
BestPartialReplays ==
    Replay(deal, best_solution.moves).foundation_count = best_solution.foundation_count

\* best_winning's moves, when set, lead to a won state
BestWinningReplays ==
    best_winning_solution # None => is_won(Replay(deal, best_winning_solution.moves))

\* C33 as stated: path validity at every loop head, the first included.
C33_PathValidity ==
    pc = "loop" => (EntriesReplay /\ BestPartialReplays /\ BestWinningReplays)

\* C33: path validity. At every loop head every frontier entry's path leads
\* from the initial state to the entry's state and its cost is the length of
\* the path, and best_winning's moves, when set, lead to a won state; from
\* the first expansion on, best_partial's moves lead to a state with
\* best_partial's foundation_count (before it best_partial is the empty
\* solution with count 0, whatever the initial state holds).
C33_PathValidityExpanded ==
    pc = "loop" =>
        /\ EntriesReplay
        /\ BestWinningReplays
        /\ expanded # << >> => BestPartialReplays
        /\ expanded = << >> => (best_solution.foundation_count = 0 /\ best_solution.moves = << >>)

\* C33 witness: a loop head with a winning path recorded, a best_partial of
\* several moves and frontier entries with longer paths
C33_Witness ==
    /\ pc = "loop"
    /\ deal.foundation_count > 0
    /\ best_winning_solution # None
    /\ Len(best_solution.moves) >= 2
    /\ \E e \in heap : Len(e.path) > Len(best_solution.moves)

\* a won state is waiting in the frontier
WonInFrontier == \E e \in heap : is_won(e.state)

\* best_winning changes only when a won state that was not visited is expanded
WinSetOnExpansion ==
    best_winning_solution' # best_winning_solution =>
        /\ JustExpanded
        /\ is_won(Last(expanded').state)
        /\ StateKey(Last(expanded').state) \notin visited
        /\ best_winning_solution'.moves = Last(expanded').path

\* solve has returned best_partial, with fewer than 52 cards
ReturnedPartial ==
    /\ result.foundation_count = best_solution.foundation_count
    /\ result.moves = best_solution.moves
    /\ result.foundation_count < 52

\* C34 as stated: whenever solve ends with a won state in the frontier, it
\* returns best_partial with foundation_count below 52.
C34_WonInFrontierLost ==
    /\ [][WinSetOnExpansion]_vars
    /\ []((pc = "done" /\ WonInFrontier) => ReturnedPartial)

\* C34: a win is recorded only on expansion. best_winning is set only when
\* a won state is popped and found unvisited, never when a won successor is
\* pushed; if the budget runs out or the search is cancelled while a won
\* state is in the frontier and no won state has been expanded, solve returns
\* best_partial with foundation_count below 52; if a won state had been
\* expanded before, solve returns best_winning.
C34_WinOnExpansion ==
    /\ [][WinSetOnExpansion]_vars
    /\ []((pc = "done" /\ WonInFrontier /\ best_winning_solution = None) => ReturnedPartial)
    /\ []((pc = "done" /\ best_winning_solution # None) => result = best_winning_solution)
    /\ [](best_winning_solution = None
            <=> \A k \in 1..Len(expanded) : ~is_won(expanded[k].state))

\* C34 witness: solve was stopped with a won state in the frontier and none
\* expanded, and returned a partial solution
C34_Witness ==
    /\ pc = "done"
    /\ WonInFrontier
    /\ best_winning_solution = None
    /\ ReturnedPartial
    /\ Len(expanded) >= 2

\* the state after n Draw moves from the initial state
DrawChain(n) == Replay(deal, [k \in 1..n |-> <<DECK>>])

\* the initial state has a card in the stock or in the waste
HasTalon == Len(deal.stock) + Len(deal.waste) > 0

\* C35: drawing never repeats a state. If the initial state has a card in
\* stock or waste, Draw is a move of every state along the chain of repeated
\* Draw moves and these states have pairwise different keys, at every loop
\* head the frontier holds an entry whose key is not visited, and solve ends
\* only by the budget or by cancellation, never with an empty frontier.
C35_DrawingNeverRepeats ==
    HasTalon =>
        /\ expanded = << >> =>
              /\ \A n \in 0..ChainLen : <<DECK>> \in Range(available_moves(DrawChain(n)))
              /\ \A m, n \in 0..ChainLen :
                    m # n => StateKey(DrawChain(m)) # StateKey(DrawChain(n))
        /\ pc = "loop" => \E e \in heap : StateKey(e.state) \notin visited
        /\ pc # "loop" =>
              /\ heap # {}
              /\ stopped_by_user \/ iterations >= max_iterations

\* C35 witness: the budget ended a run in which the chain of Draw moves was
\* followed through a recycle
C35_Witness ==
    /\ HasTalon
    /\ pc = "done"
    /\ ~stopped_by_user
    /\ iterations = max_iterations
    /\ \E k \in 1..Len(expanded) :
          /\ expanded[k].len >= 2
          /\ expanded[k].state = DrawChain(expanded[k].len)
          /\ expanded[k].state.stock_cycles >= 1
    /\ \E e \in heap : e.state = DrawChain(Len(e.path)) /\ StateKey(e.state) \notin visited

(***************************************************************************)
(* The consumer of progress reports (ConsumerSpec).                        *)
(***************************************************************************)
\* C31: no torn solution is observable. Whenever the consumer thread has
\* read the best_partial solution it was handed, the foundation_count and the
\* move list it read belong together: replaying the moves from the initial
\* state gives a state with that foundation_count.
C31_NoTornSolution ==
    consumer.read =>
        Replay(deal, consumer.moves).foundation_count = consumer.foundation_count

(***************************************************************************)
(* The result of execute_solution (ExecSpec).                              *)
(***************************************************************************)
\* every move of the solution was carried out by execute_move
AllCarriedOut(e) ==
    /\ e.moves # << >>
    /\ Len(e.outcomes) = Len(e.moves)
    /\ \A k \in 1..Len(e.outcomes) : e.outcomes[k] = "ok"

\* C32: execute_solution returns True if and only if every move of the
\* solution was carried out successfully by the reader's execute_move; it
\* returns False for an empty solution, an unreadable game and a failed move.
C32_ExecuteResult ==
    exec.pc = "done" => (exec.result = "True" <=> AllCarriedOut(exec))

(***************************************************************************)
(* The solver thread of the GUI (SolveGuiSpec).                            *)
(***************************************************************************)
\* the solver threads that have not ended
SolverAlive == {i \in 1..Len(solver_threads) : solver_threads[i] # "ended"}

\* C38: at most one solver thread runs at a time; a solver thread is started
\* only when solving is False, and solving is then True; every exit of
\* solve_thread leaves solving False, so that once the threads have ended
\* solving is False and the Solve button starts a new one.
C38_SingleSolverThread ==
    /\ [](/\ Cardinality(SolverAlive) <= 1
          /\ gui.solving <=> SolverAlive # {})
    /\ [][/\ Len(solver_threads') > Len(solver_threads) => (~gui.solving /\ gui'.solving)
          /\ \A i \in 1..Len(solver_threads) :
                (solver_threads[i] # "ended" /\ solver_threads'[i] = "ended")
                    => ~gui'.solving]_vars

\* a second solve was started after the first thread ended
C38_Witness ==
    /\ Len(solver_threads) = 2
    /\ solver_threads[1] = "ended"
    /\ solver_threads[2] = "solve"
    /\ gui.solving

(***************************************************************************)
(* The flags of automatic execution (AutoSpec).                            *)
(***************************************************************************)
\* the execution threads that have not ended
ExecuteAlive == {k \in 1..Len(execute_threads) : execute_threads[k].pc # "ended"}

\* C39: under every interleaving of execute_auto and toggle_execution with
\* the execution thread, whenever no callback is running, auto_executing is
\* True only while an execution thread is alive, at most one such thread is
\* alive, and once the threads have ended auto_executing and
\* execution_paused are both False.
C39_FlagsFollowThread ==
    handler = HandlerIdle =>
        /\ gui.auto_executing => ExecuteAlive # {}
        /\ Cardinality(ExecuteAlive) <= 1
        /\ (execute_threads # << >> /\ ExecuteAlive = {}) =>
              (~gui.auto_executing /\ ~gui.execution_paused)

(***************************************************************************)
(* Properties of from_reader_state (ReaderSpec).                           *)
(***************************************************************************)
\* the cards the reader gave for the pile with this id
CardsOfPile(rs, id) ==
    IF \E k \in 1..Len(rs.piles) : rs.piles[k].id = id /\ rs.piles[k].readable
    THEN rs.piles[CHOOSE k \in 1..Len(rs.piles) : rs.piles[k].id = id].cards
    ELSE << >>

InRange(cards) == SelectSeq(cards, LAMBDA c : c.id \in 0..51)

\* C18: conversion rules. from_reader_state puts the cards of pile 0 into
\* stock and of pile 1 into waste in their given order, sets foundation k to
\* the rank of the last card of pile k+2 only (-1 when the pile is empty or
\* that card is dropped), copies piles 6..12 to tableaus 0..6 with each
\* card's face-up flag, and drops every card whose id is outside 0..51.
C18_Conversion ==
    (solver_state # NotConverted /\ solver_state # None) =>
        LET rs == reader_state
            s == solver_state
        IN  /\ s.stock = [k \in 1..Len(InRange(CardsOfPile(rs, 0))) |->
                              InRange(CardsOfPile(rs, 0))[k].id]
            /\ s.waste = [k \in 1..Len(InRange(CardsOfPile(rs, 1))) |->
                              InRange(CardsOfPile(rs, 1))[k].id]
            /\ \A f \in 0..3 :
                  LET cards == CardsOfPile(rs, f + 2)
                  IN  s.foundations[f + 1] =
                         IF cards = << >> THEN -1
                         ELSE IF cards[Len(cards)].id \in 0..51
                              THEN cards[Len(cards)].id \div 4
                              ELSE -1
            /\ \A j \in 0..6 :
                  LET cards == InRange(CardsOfPile(rs, j + 6))
                  IN  s.tableaus[j + 1] =
                         [k \in 1..Len(cards) |-> <<cards[k].id, cards[k].face_up>>]
            /\ s.stock_cycles = 0
            /\ \A c \in Range(s.stock) \cup Range(s.waste) : c \in 0..51

\* C18 witness: a foundation pile of two cards gave the rank of its last
\* card, not the number of its cards
C18_Witness ==
    /\ solver_state # NotConverted
    /\ solver_state # None
    /\ Len(CardsOfPile(reader_state, 2)) = 2
    /\ CardsOfPile(reader_state, 2)[1].id = 52
    /\ solver_state.foundations = <<12, -1, -1, -1>>

\* a reader state that is clearly invalid: nothing was read, a read error is
\* carried, piles are missing or unreadable, or the cards are not 52
ClearlyInvalid(rs) ==
    \/ rs.falsy
    \/ rs.error
    \/ Len(rs.piles) < 13
    \/ \E k \in 1..Len(rs.piles) : ~rs.piles[k].readable
    \/ SumTo([k \in 1..Len(rs.piles) |-> Len(InRange(rs.piles[k].cards))],
             Len(rs.piles)) # 52

\* C19: rejection of invalid input. When the pile description is clearly
\* invalid, from_reader_state returns None and the search is not started.
C19_InvalidRejected ==
    (solver_state # NotConverted /\ ClearlyInvalid(reader_state)) =>
        /\ solver_state = None
        /\ ~search_started

=============================================================================
